---------------------------- MODULE Spec2Model ----------------------------
(***************************************************************************)
(* Position lifecycle and portfolio accounting of the trading simulator    *)
(* (src/portfolio.py, src/config.py).                                      *)
(*                                                                         *)
(* Money, prices and quantities are Python floats in the source.  They are *)
(* modelled here as exact rationals [num, den] in lowest terms, so every   *)
(* arithmetic statement below is a statement about the real-number value   *)
(* of the expression the code evaluates; float rounding is not modelled.   *)
(* Timestamps (datetime.now()) are read from the environment and never     *)
(* read back by the ledger operations; they are left out of the records.   *)
(*                                                                         *)
(* `last' is the most recent call on the Portfolio object with its return  *)
(* value; `cashBefore' records, for every trade of the history, the cash   *)
(* balance the operation found when it started.                            *)
(***************************************************************************)
EXTENDS Integers, Sequences, FiniteSets, TLC

VARIABLES cash, positions, trades, last, cashBefore,
          pc, idx, positions_to_close, long_candidates, short_candidates,
          store, scheduler, web, hist

vars == <<cash, positions, trades, last, cashBefore,
          pc, idx, positions_to_close, long_candidates, short_candidates,
          store, scheduler, web, hist>>

\* the TradingEngine running a cycle, the persisted store, the scheduler and
\* the web-server thread
engineVars == <<pc, idx, positions_to_close, long_candidates,
                short_candidates, store, scheduler, web, hist>>

ledger == <<cash, positions, trades>>

(***************************************************************************)
(* Exact rational arithmetic standing for the float operators + - * / and  *)
(* the comparisons.                                                        *)
(***************************************************************************)
Abs(i) == IF i < 0 THEN -i ELSE i

RECURSIVE GCD(_, _)
GCD(a, b) == IF b = 0 THEN a ELSE GCD(b, a % b)

LCM(a, b) == (a \div GCD(a, b)) * b

\* n/d in lowest terms, d > 0
Norm(n, d) ==
    LET g == GCD(Abs(n), d)
    IN  IF n >= 0 THEN [num |-> n \div g, den |-> d \div g]
                  ELSE [num |-> -((-n) \div g), den |-> d \div g]

R(i) == [num |-> i, den |-> 1]

RAdd(a, b) ==
    LET l == LCM(a.den, b.den)
    IN  Norm(a.num * (l \div a.den) + b.num * (l \div b.den), l)

RNeg(a) == [num |-> -a.num, den |-> a.den]

RSub(a, b) == RAdd(a, RNeg(b))

RMul(a, b) ==
    LET g1 == GCD(Abs(a.num), b.den)
        g2 == GCD(Abs(b.num), a.den)
        an == IF a.num >= 0 THEN a.num \div g1 ELSE -((-a.num) \div g1)
        bn == IF b.num >= 0 THEN b.num \div g2 ELSE -((-b.num) \div g2)
    IN  Norm(an * bn, (a.den \div g2) * (b.den \div g1))

\* only applied with b # 0 (see ZeroDivisionError in the open operations)
RDiv(a, b) ==
    IF b.num > 0 THEN RMul(a, [num |-> b.den, den |-> b.num])
                 ELSE RMul(a, [num |-> -b.den, den |-> -b.num])

RLt(a, b) ==
    LET l == LCM(a.den, b.den)
    IN  a.num * (l \div a.den) < b.num * (l \div b.den)

RLe(a, b) == ~RLt(b, a)

RGe(a, b) == ~RLt(a, b)

RGt(a, b) == RLt(b, a)

Zero == R(0)

One == R(1)

(***************************************************************************)
(* src/config.py                                                           *)
(***************************************************************************)
INITIAL_BUDGET == 1000

POSITION_SIZE == 10

\* int(INITIAL_BUDGET / POSITION_SIZE)
MAX_POSITIONS == INITIAL_BUDGET \div POSITION_SIZE

\* 0.03
TAKE_PROFIT == Norm(3, 100)

\* -0.05
STOP_LOSS == Norm(-5, 100)

(***************************************************************************)
(* Bounds and input domains of the model.                                  *)
(***************************************************************************)
\* the trade history grows without bound in the program; the model stops
\* appending MaxTrades records after the initial state
MaxTrades == 2

Tickers == {"X", "Y"}

\* prices handed to the ledger: 0 (division by zero on entry) and two
\* entry levels with an exit level next to each
Prices == {R(0), R(48), R(50), R(100), R(103)}

\* the reasons check_exit_conditions passes to close_position
Reasons == {"Take profit reached", "Stop loss triggered"}

NoReason == "None"

(***************************************************************************)
(* Portfolio                                                               *)
(***************************************************************************)
\* the persisted store before the first save_portfolio: no files, which
\* load_portfolio reads as the defaults of __init__
NoStore ==
    [exists |-> FALSE, cash |-> R(INITIAL_BUDGET),
     positions |-> [t \in {} |-> 0], trades |-> <<>>, cashBefore |-> <<>>]

\* what is remembered of the running cycle: the number of cycles started,
\* whether this cycle and the one before it raised and at which statement,
\* whether the summary after it raised, the length of the history, the
\* positions and the store at its start, the prices check_exit_conditions
\* fetched, the series scan_for_opportunities was given and the positions
\* held when it ran, and what execute_trades did per candidate
NoHist ==
    [cycles |-> 0, failed |-> FALSE, prevFailed |-> FALSE, raisedAt |-> "",
     summaryFailed |-> FALSE, t0 |-> 0,
     pos0 |-> [t \in {} |-> 0], store0 |-> NoStore,
     quotes |-> [t \in {} |-> 0], stock_data |-> [t \in {} |-> 0],
     held |-> [t \in {} |-> 0], log |-> <<>>]

\* the ledger of the TradingEngine the status route built last; none yet
NoWeb ==
    [served |-> FALSE, cash |-> R(INITIAL_BUDGET),
     positions |-> [t \in {} |-> 0], trades |-> <<>>]

\* no cycle is running and nothing is persisted; sch is the scheduler
EngineStart(sch) ==
    /\ pc = "idle"
    /\ idx = 0
    /\ positions_to_close = <<>>
    /\ long_candidates = <<>>
    /\ short_candidates = <<>>
    /\ store = NoStore
    /\ scheduler = sch
    /\ web = NoWeb
    /\ hist = NoHist

\* a Portfolio used on its own, outside any engine
NoEngine == EngineStart("none")

\* an operation called directly on the Portfolio leaves the engine alone
Detached == UNCHANGED engineVars

\* Portfolio.__init__ with no persisted store
DefaultLedger ==
    /\ cash = R(INITIAL_BUDGET)
    /\ positions = [t \in {} |-> 0]
    /\ trades = <<>>
    /\ cashBefore = <<>>
    /\ last = [op |-> "__init__", ticker |-> "", ret |-> "None"]

Init == DefaultLedger /\ NoEngine

Call(op, ticker, ret) == last' = [op |-> op, ticker |-> ticker, ret |-> ret]

Unchanged == UNCHANGED <<cash, positions, trades, cashBefore>>

can_open_position_NoCount == RGe(cash, R(POSITION_SIZE))

can_open_position_Le ==
    /\ RGe(cash, R(POSITION_SIZE))
    /\ Cardinality(DOMAIN positions) <= MAX_POSITIONS

can_open_position ==
    /\ RGe(cash, R(POSITION_SIZE))
    /\ Cardinality(DOMAIN positions) < MAX_POSITIONS

OpenRefused_NoDup(ticker) == ~can_open_position

\* the two early returns of the open operations
OpenRefused(ticker) == ~can_open_position \/ ticker \in DOMAIN positions

LongPosition_SignSlip(ticker, price) ==
    [ticker |-> ticker,
     position_type |-> "long",
     entry_price |-> price,
     quantity |-> RDiv(R(POSITION_SIZE), price),
     stop_loss |-> RMul(price, RSub(One, STOP_LOSS)),
     take_profit |-> RMul(price, RAdd(One, TAKE_PROFIT))]

LongPosition(ticker, price) ==
    [ticker |-> ticker,
     position_type |-> "long",
     entry_price |-> price,
     quantity |-> RDiv(R(POSITION_SIZE), price),
     stop_loss |-> RMul(price, RAdd(One, STOP_LOSS)),
     take_profit |-> RMul(price, RAdd(One, TAKE_PROFIT))]

ShortPosition_LikeLong(ticker, price) ==
    [ticker |-> ticker,
     position_type |-> "short",
     entry_price |-> price,
     quantity |-> RDiv(R(POSITION_SIZE), price),
     stop_loss |-> RMul(price, RAdd(One, STOP_LOSS)),
     take_profit |-> RMul(price, RAdd(One, TAKE_PROFIT))]

ShortPosition(ticker, price) ==
    [ticker |-> ticker,
     position_type |-> "short",
     entry_price |-> price,
     quantity |-> RDiv(R(POSITION_SIZE), price),
     stop_loss |-> RMul(price, RSub(One, STOP_LOSS)),
     take_profit |-> RMul(price, RSub(One, TAKE_PROFIT))]

\* Trade(...) of an opening operation: profit_loss keeps its default 0.0
OpeningTrade(ticker, action, price, quantity, reason) ==
    [ticker |-> ticker, action |-> action, price |-> price,
     quantity |-> quantity, profit_loss |-> Zero, reason |-> reason]

CashAfterOpen_DoubleCharge == RSub(cash, R(2 * POSITION_SIZE))

\* self.cash -= POSITION_SIZE
CashAfterOpen == RSub(cash, R(POSITION_SIZE))

open_long_position(ticker, price) ==
    IF OpenRefused(ticker)
    THEN /\ Unchanged
         /\ Call("open_long_position", ticker, "False")
    ELSE IF price = Zero
    THEN \* POSITION_SIZE / price raises before any assignment
         /\ Unchanged
         /\ Call("open_long_position", ticker, "ZeroDivisionError")
    ELSE LET position == LongPosition(ticker, price)
             trade == OpeningTrade(ticker, "BUY", price, position.quantity,
                                   "Price dropped 5% - buying opportunity")
         IN  /\ positions' = (ticker :> position) @@ positions
             /\ trades' = Append(trades, trade)
             /\ cash' = CashAfterOpen
             /\ cashBefore' = Append(cashBefore, cash)
             /\ Call("open_long_position", ticker, "True")

open_short_position(ticker, price) ==
    IF OpenRefused(ticker)
    THEN /\ Unchanged
         /\ Call("open_short_position", ticker, "False")
    ELSE IF price = Zero
    THEN /\ Unchanged
         /\ Call("open_short_position", ticker, "ZeroDivisionError")
    ELSE LET position == ShortPosition(ticker, price)
             trade == OpeningTrade(ticker, "SHORT", price, position.quantity,
                                   "Price jumped 10% - shorting opportunity")
         IN  /\ positions' = (ticker :> position) @@ positions
             /\ trades' = Append(trades, trade)
             /\ cash' = CashAfterOpen
             /\ cashBefore' = Append(cashBefore, cash)
             /\ Call("open_short_position", ticker, "True")

ProfitLoss_ShortAsLong(position, current_price) ==
    RMul(RSub(current_price, position.entry_price), position.quantity)

ProfitLoss_Doubled(position, current_price) ==
    IF position.position_type = "long"
    THEN RMul(R(2), RMul(RSub(current_price, position.entry_price),
                         position.quantity))
    ELSE RMul(R(2), RMul(RSub(position.entry_price, current_price),
                         position.quantity))

ProfitLoss(position, current_price) ==
    IF position.position_type = "long"
    THEN RMul(RSub(current_price, position.entry_price), position.quantity)
    ELSE RMul(RSub(position.entry_price, current_price), position.quantity)

CloseAction_AlwaysSell(position) == "SELL"

CloseAction(position) ==
    IF position.position_type = "long" THEN "SELL" ELSE "COVER"

CashAfterClose_NoRelease(profit_loss) == RAdd(cash, profit_loss)

CashAfterClose_Clamped(profit_loss) ==
    IF RLt(RAdd(cash, RAdd(R(POSITION_SIZE), profit_loss)), Zero)
    THEN Zero
    ELSE RAdd(cash, RAdd(R(POSITION_SIZE), profit_loss))

\* self.cash += POSITION_SIZE + profit_loss
CashAfterClose(profit_loss) == RAdd(cash, RAdd(R(POSITION_SIZE), profit_loss))

CloseRefusal_ReturnsTrue(ticker) ==
    /\ Unchanged
    /\ Call("close_position", ticker, "True")

CloseRefusal_RecordsAttempt(ticker) ==
    /\ trades' = Append(trades, [ticker |-> ticker, action |-> "SELL",
                                 price |-> Zero, quantity |-> Zero,
                                 profit_loss |-> Zero,
                                 reason |-> "no position"])
    /\ cashBefore' = Append(cashBefore, cash)
    /\ UNCHANGED <<cash, positions>>
    /\ Call("close_position", ticker, "False")

\* if ticker not in self.positions: return False
CloseRefusal(ticker) ==
    /\ Unchanged
    /\ Call("close_position", ticker, "False")

close_position(ticker, current_price, reason) ==
    IF ticker \notin DOMAIN positions
    THEN CloseRefusal(ticker)
    ELSE LET position == positions[ticker]
             profit_loss == ProfitLoss(position, current_price)
             trade == [ticker |-> ticker, action |-> CloseAction(position),
                       price |-> current_price,
                       quantity |-> position.quantity,
                       profit_loss |-> profit_loss, reason |-> reason]
         IN  /\ cash' = CashAfterClose(profit_loss)
             /\ positions' = [t \in DOMAIN positions \ {ticker} |-> positions[t]]
             /\ trades' = Append(trades, trade)
             /\ cashBefore' = Append(cashBefore, cash)
             /\ Call("close_position", ticker, "True")

Bounded(n) == Len(trades') <= n

Step(T, P, n) ==
    \/ \E t \in T, p \in P :
          open_long_position(t, p) /\ Bounded(n) /\ Detached
    \/ \E t \in T, p \in P :
          open_short_position(t, p) /\ Bounded(n) /\ Detached
    \/ \E t \in T, p \in P, r \in Reasons :
          close_position(t, p, r) /\ Bounded(n) /\ Detached

Next == Step(Tickers, Prices, MaxTrades)

Spec == Init /\ [][Next]_vars

ExitReason_LongStopFirst(position, current_price) ==
    IF position.position_type = "long"
    THEN IF RLe(current_price, position.stop_loss)
         THEN "Stop loss triggered"
         ELSE IF RGe(current_price, position.take_profit)
              THEN "Take profit reached"
              ELSE NoReason
    ELSE IF RLe(current_price, position.take_profit)
         THEN "Take profit reached"
         ELSE IF RGe(current_price, position.stop_loss)
              THEN "Stop loss triggered"
              ELSE NoReason

ExitReason_ShortStopFirst(position, current_price) ==
    IF position.position_type = "long"
    THEN IF RGe(current_price, position.take_profit)
         THEN "Take profit reached"
         ELSE IF RLe(current_price, position.stop_loss)
              THEN "Stop loss triggered"
              ELSE NoReason
    ELSE IF RGe(current_price, position.stop_loss)
         THEN "Stop loss triggered"
         ELSE IF RLe(current_price, position.take_profit)
              THEN "Take profit reached"
              ELSE NoReason

ExitReason_ReasonsSwapped(position, current_price) ==
    IF position.position_type = "long"
    THEN IF RGe(current_price, position.take_profit)
         THEN "Stop loss triggered"
         ELSE IF RLe(current_price, position.stop_loss)
              THEN "Take profit reached"
              ELSE NoReason
    ELSE IF RLe(current_price, position.take_profit)
         THEN "Stop loss triggered"
         ELSE IF RGe(current_price, position.stop_loss)
              THEN "Take profit reached"
              ELSE NoReason

\* the exit rule on the thresholds fixed at entry
ExitReason(position, current_price) ==
    IF position.position_type = "long"
    THEN IF RGe(current_price, position.take_profit)
         THEN "Take profit reached"
         ELSE IF RLe(current_price, position.stop_loss)
              THEN "Stop loss triggered"
              ELSE NoReason
    ELSE IF RLe(current_price, position.take_profit)
         THEN "Take profit reached"
         ELSE IF RGe(current_price, position.stop_loss)
              THEN "Stop loss triggered"
              ELSE NoReason

should_close_position(ticker, current_price) ==
    IF ticker \notin DOMAIN positions
    THEN NoReason
    ELSE ExitReason(positions[ticker], current_price)

ShouldClose_TrailsStop(ticker, current_price) ==
    /\ positions' = IF ticker \in DOMAIN positions
                    THEN [positions EXCEPT ![ticker].stop_loss = current_price]
                    ELSE positions
    /\ UNCHANGED <<cash, trades, cashBefore>>
    /\ last' = [op |-> "should_close_position", ticker |-> ticker,
                price |-> current_price,
                ret |-> should_close_position(ticker, current_price)]

\* a call of should_close_position: the ledger is only read
ShouldClose(ticker, current_price) ==
    /\ Unchanged
    /\ last' = [op |-> "should_close_position", ticker |-> ticker,
                price |-> current_price,
                ret |-> should_close_position(ticker, current_price)]

(***************************************************************************)
(* The ledger at its capacity limit.  MAX_POSITIONS is 100, so the limit   *)
(* is only met with about a hundred tickers held.  SpecCap starts from the *)
(* ledger the default one reaches by a profitable round trip on W (LONG at *)
(* 50, sold at 100, profit 10) followed by NumHeld LONG entries at 50 on   *)
(* H1..H<NumHeld>, and goes on from there with X, Y and H1.                *)
(***************************************************************************)
NumHeld == 99

HeldTicker(i) == "H" \o ToString(i)

CapTickers == {"X", "Y", HeldTicker(1)}

CapPrices == {R(50), R(103)}

BuyReason == "Price dropped 5% - buying opportunity"

CapTrade(i) ==
    IF i = 1
    THEN OpeningTrade("W", "BUY", R(50), LongPosition("W", R(50)).quantity,
                      BuyReason)
    ELSE IF i = 2
    THEN [ticker |-> "W", action |-> "SELL", price |-> R(100),
          quantity |-> LongPosition("W", R(50)).quantity,
          profit_loss |-> ProfitLoss(LongPosition("W", R(50)), R(100)),
          reason |-> "Take profit reached"]
    ELSE OpeningTrade(HeldTicker(i - 2), "BUY", R(50),
                      LongPosition(HeldTicker(i - 2), R(50)).quantity,
                      BuyReason)

\* the cash found by the operation that appended trade i of the start
CapCashBefore(i) ==
    IF i = 1 THEN R(INITIAL_BUDGET)
    ELSE IF i = 2 THEN R(INITIAL_BUDGET - POSITION_SIZE)
    ELSE R(INITIAL_BUDGET + POSITION_SIZE - (i - 3) * POSITION_SIZE)

CapLedger ==
    /\ positions = [t \in {HeldTicker(i) : i \in 1..NumHeld} |->
                       LongPosition(t, R(50))]
    /\ trades = [i \in 1..(NumHeld + 2) |-> CapTrade(i)]
    /\ cashBefore = [i \in 1..(NumHeld + 2) |-> CapCashBefore(i)]
    /\ cash = R(INITIAL_BUDGET + POSITION_SIZE - NumHeld * POSITION_SIZE)
    /\ last = [op |-> "open_long_position", ticker |-> HeldTicker(NumHeld),
               ret |-> "True"]

InitCap == CapLedger /\ NoEngine

NextCap == Step(CapTickers, CapPrices, NumHeld + 2 + MaxTrades)

SpecCap == InitCap /\ [][NextCap]_vars

(***************************************************************************)
(* The exit rule as a function of a position and a price.  SpecExit starts *)
(* from a ledger hydrated by load_portfolio with one position on X.  The   *)
(* store is a file: load_portfolio takes the thresholds it holds as they   *)
(* are, in either order around the entry price.                            *)
(***************************************************************************)
StoredLevels == {R(95), R(97), R(103), R(105)}

ExitPrices == {R(90), R(95), R(97), R(100), R(103), R(105), R(110)}

InitExit ==
    \E ty \in {"long", "short"}, sl \in StoredLevels, tp \in StoredLevels :
        /\ positions = ("X" :> [ticker |-> "X", position_type |-> ty,
                                entry_price |-> R(100),
                                quantity |-> Norm(1, 10),
                                stop_loss |-> sl, take_profit |-> tp])
        /\ cash = R(INITIAL_BUDGET - POSITION_SIZE)
        /\ trades = << OpeningTrade("X",
                                    IF ty = "long" THEN "BUY" ELSE "SHORT",
                                    R(100), Norm(1, 10), "") >>
        /\ cashBefore = << R(INITIAL_BUDGET) >>
        /\ last = [op |-> "load_portfolio", ticker |-> "", price |-> Zero,
                   ret |-> "None"]
        /\ NoEngine

NextExit ==
    \E t \in Tickers, p \in ExitPrices : ShouldClose(t, p) /\ Detached

SpecExit == InitExit /\ [][NextExit]_vars

(***************************************************************************)
(* The read-only views of the ledger: get_statistics and                   *)
(* get_portfolio_value.  A call records its argument and its result in     *)
(* `last'.                                                                 *)
(***************************************************************************)
RECURSIVE SumProfitLoss(_)
\* sum(t.profit_loss for t in self.trades)
SumProfitLoss(ts) ==
    IF ts = <<>> THEN Zero
    ELSE RAdd(SumProfitLoss(SubSeq(ts, 1, Len(ts) - 1)), ts[Len(ts)].profit_loss)

IsProfitable(tr) == RGt(tr.profit_loss, Zero)

IsLosing(tr) == RLt(tr.profit_loss, Zero)

get_statistics_CountsZeroAsWin ==
    LET total_trades == Len(trades)
        profitable_trades ==
            Len(SelectSeq(trades, LAMBDA tr : RGe(tr.profit_loss, Zero)))
        losing_trades == Len(SelectSeq(trades, IsLosing))
    IN  [total_trades |-> total_trades,
         profitable_trades |-> profitable_trades,
         losing_trades |-> losing_trades,
         win_rate |-> IF total_trades > 0
                      THEN RDiv(R(profitable_trades), R(total_trades))
                      ELSE Zero,
         total_profit |-> SumProfitLoss(trades),
         cash |-> cash,
         active_positions |-> Cardinality(DOMAIN positions)]

get_statistics_RateOverCloses ==
    LET total_trades == Len(trades)
        profitable_trades == Len(SelectSeq(trades, IsProfitable))
        losing_trades == Len(SelectSeq(trades, IsLosing))
        closing_trades ==
            Len(SelectSeq(trades, LAMBDA tr : tr.action \in {"SELL", "COVER"}))
    IN  [total_trades |-> total_trades,
         profitable_trades |-> profitable_trades,
         losing_trades |-> losing_trades,
         win_rate |-> IF closing_trades > 0
                      THEN RDiv(R(profitable_trades), R(closing_trades))
                      ELSE Zero,
         total_profit |-> SumProfitLoss(trades),
         cash |-> cash,
         active_positions |-> Cardinality(DOMAIN positions)]

get_statistics ==
    LET total_trades == Len(trades)
        profitable_trades == Len(SelectSeq(trades, IsProfitable))
        losing_trades == Len(SelectSeq(trades, IsLosing))
    IN  [total_trades |-> total_trades,
         profitable_trades |-> profitable_trades,
         losing_trades |-> losing_trades,
         win_rate |-> IF total_trades > 0
                      THEN RDiv(R(profitable_trades), R(total_trades))
                      ELSE Zero,
         total_profit |-> SumProfitLoss(trades),
         cash |-> cash,
         active_positions |-> Cardinality(DOMAIN positions)]

\* a call of get_statistics
GetStatistics ==
    /\ Unchanged
    /\ last' = [op |-> "get_statistics", ticker |-> "", ret |-> "dict",
                stats |-> get_statistics]

PositionValue_MissingIsZero(position, current_prices) ==
    IF position.ticker \in DOMAIN current_prices
    THEN IF position.position_type = "long"
         THEN RMul(current_prices[position.ticker], position.quantity)
         ELSE RAdd(R(POSITION_SIZE),
                   RMul(RSub(position.entry_price,
                             current_prices[position.ticker]),
                        position.quantity))
    ELSE Zero

\* the value one open position adds to the total
PositionValue(position, current_prices) ==
    IF position.ticker \in DOMAIN current_prices
    THEN IF position.position_type = "long"
         THEN RMul(current_prices[position.ticker], position.quantity)
         ELSE RAdd(R(POSITION_SIZE),
                   RMul(RSub(position.entry_price,
                             current_prices[position.ticker]),
                        position.quantity))
    ELSE R(POSITION_SIZE)

RECURSIVE SumPositionValues(_, _)
SumPositionValues(held, current_prices) ==
    IF held = {} THEN Zero
    ELSE LET t == CHOOSE u \in held : TRUE
         IN  RAdd(PositionValue(positions[t], current_prices),
                  SumPositionValues(held \ {t}, current_prices))

get_portfolio_value(current_prices) ==
    RAdd(cash, SumPositionValues(DOMAIN positions, current_prices))

\* a call of get_portfolio_value
GetPortfolioValue(current_prices) ==
    /\ Unchanged
    /\ last' = [op |-> "get_portfolio_value", ticker |-> "", ret |-> "float",
                current_prices |-> current_prices,
                value |-> get_portfolio_value(current_prices)]

\* entry and exit at two levels keeps the histories of SpecStats short
\* enough to hold a winning and a losing round trip
StatPrices == {R(50), R(100)}

NextStats ==
    \/ Step({"X"}, StatPrices, MaxTrades + 2)
    \/ GetStatistics /\ Detached

SpecStats == Init /\ [][NextStats]_vars

\* the dictionaries get_portfolio_value is called with: a price for some
\* of the tickers
PriceMaps == UNION {[S -> StatPrices] : S \in SUBSET Tickers}

NextValue ==
    \/ Step(Tickers, StatPrices, MaxTrades)
    \/ \E cp \in PriceMaps : GetPortfolioValue(cp) /\ Detached

SpecValue == Init /\ [][NextValue]_vars

(***************************************************************************)
(* DataFetcher: the market data is the environment.  A price is a rational *)
(* or NoPrice (None); a price series is a sequence of positive closes.     *)
(***************************************************************************)
NoPrice == [num |-> 0, den |-> 0]

Truthy_NoneOnly(current_price) == current_price # NoPrice

\* `if current_price:' -- None and 0.0 are both false
Truthy(current_price) == current_price # NoPrice /\ current_price # Zero

SHORT_TRIGGER == Norm(10, 100)

BUY_TRIGGER == Norm(-5, 100)

LOOKBACK_DAYS == 7

calculate_price_change_FromFirst(data, days) ==
    IF Len(data) < days + 1
    THEN NoPrice
    ELSE LET current_price == data[Len(data)]
             past_price == data[1]
         IN  RDiv(RSub(current_price, past_price), past_price)

\* data['Close'].iloc[-1] against data['Close'].iloc[-(days + 1)]
calculate_price_change(data, days) ==
    IF Len(data) < days + 1
    THEN NoPrice
    ELSE LET current_price == data[Len(data)]
             past_price == data[Len(data) - days]
         IN  RDiv(RSub(current_price, past_price), past_price)

\* a series of n closes that stood at past and ends at current
Closes(past, current, n) == [k \in 1..n |-> IF k = n THEN current ELSE past]

\* a 5% drop, a 10% jump, a 4% drop and a 5% drop over too short a series
SeriesSamples ==
    {Closes(R(100), R(95), LOOKBACK_DAYS + 1),
     Closes(R(100), R(110), LOOKBACK_DAYS + 1),
     Closes(R(100), R(96), LOOKBACK_DAYS + 2),
     Closes(R(100), R(95), LOOKBACK_DAYS)}

\* what get_stock_data can return for the tickers of a list: a series for
\* some of them
StockData(tickers) ==
    UNION {[S -> SeriesSamples] :
             S \in SUBSET {tickers[k] : k \in 1..Len(tickers)}}

\* what get_current_price can return
Quotes == {NoPrice, Zero, R(95), R(100)}

(***************************************************************************)
(* TradingEngine                                                           *)
(***************************************************************************)
\* the tickers get_sp500_companies returns
Universe == <<"X">>

\* the number of cycles the scheduler starts is unbounded in the program
MaxCycles == 2

Schedulers == {"continuous_mode", "trading_loop"}

RECURSIVE SortedSeq(_)
SortedSeq(S) ==
    IF S = {} THEN <<>>
    ELSE LET m == CHOOSE x \in S : \A y \in S : x <= y
         IN  <<m>> \o SortedSeq(S \ {m})

\* self.portfolio.positions.keys(): a dict keeps insertion order, which is
\* the order of the opening trades of the positions still open
PositionKeys ==
    LET opened == {j \in 1..Len(trades) :
                     /\ trades[j].action \in {"BUY", "SHORT"}
                     /\ trades[j].ticker \in DOMAIN positions
                     /\ \A k \in (j + 1)..Len(trades) :
                          trades[k].ticker # trades[j].ticker}
        order == SortedSeq(opened)
    IN  [k \in 1..Len(order) |-> trades[order[k]].ticker]

Classify_NoHeldCheck(ticker, stock_data) ==
    IF ticker \notin DOMAIN stock_data THEN "skip"
    ELSE LET price_change ==
                 calculate_price_change(stock_data[ticker], LOOKBACK_DAYS)
         IN  IF price_change = NoPrice THEN "skip"
             ELSE IF RGe(price_change, SHORT_TRIGGER) THEN "short"
             ELSE IF RLe(price_change, BUY_TRIGGER) THEN "long"
             ELSE "skip"

Classify_StrictShort(ticker, stock_data) ==
    IF ticker \in DOMAIN positions THEN "skip"
    ELSE IF ticker \notin DOMAIN stock_data THEN "skip"
    ELSE LET price_change ==
                 calculate_price_change(stock_data[ticker], LOOKBACK_DAYS)
         IN  IF price_change = NoPrice THEN "skip"
             ELSE IF RGt(price_change, SHORT_TRIGGER) THEN "short"
             ELSE IF RLe(price_change, BUY_TRIGGER) THEN "long"
             ELSE "skip"

\* the branch the loop body of scan_for_opportunities takes for a ticker
Classify(ticker, stock_data) ==
    IF ticker \in DOMAIN positions THEN "skip"
    ELSE IF ticker \notin DOMAIN stock_data THEN "skip"
    ELSE LET price_change ==
                 calculate_price_change(stock_data[ticker], LOOKBACK_DAYS)
         IN  IF price_change = NoPrice THEN "skip"
             ELSE IF RGe(price_change, SHORT_TRIGGER) THEN "short"
             ELSE IF RLe(price_change, BUY_TRIGGER) THEN "long"
             ELSE "skip"

RECURSIVE CandidatesOf(_, _, _)
\* the tickers of the list classified as side, in list order
CandidatesOf(tickers, stock_data, side) ==
    IF tickers = <<>> THEN <<>>
    ELSE LET front == CandidatesOf(SubSeq(tickers, 1, Len(tickers) - 1),
                                   stock_data, side)
             ticker == tickers[Len(tickers)]
         IN  IF Classify(ticker, stock_data) = side
             THEN Append(front, ticker)
             ELSE front

\* returns <<long_candidates, short_candidates>>
scan_for_opportunities(tickers, stock_data) ==
    <<CandidatesOf(tickers, stock_data, "long"),
      CandidatesOf(tickers, stock_data, "short")>>

PhaseAfter_EntriesFirst(step) ==
    IF step = "start" THEN "scan"
    ELSE IF step = "entry" THEN "exit_fetch"
    ELSE "save"

\* the statements of the try block of run_trading_cycle in their order:
\* check_exit_conditions, then scan_for_opportunities and execute_trades,
\* then save_portfolio
PhaseAfter(step) ==
    IF step = "start" THEN "exit_fetch"
    ELSE IF step = "exit" THEN "scan"
    ELSE "save"

\* Position.to_dict: the member of PositionType is replaced by its value;
\* json.dump writes the floats as JSON numbers
to_dict(position) == [position EXCEPT !.position_type = [value |-> @]]

\* Position.from_dict: PositionType(data['position_type'])
from_dict(data) == [data EXCEPT !.position_type = @.value]

\* what csv.DictWriter writes for a float: its text
Cell(x) == [text |-> x]

\* float(row[...]) on the text of a float
float(cell) == cell.text

\* the row csv.DictWriter writes for Trade.to_dict
Row(trade) ==
    [trade EXCEPT !.price = Cell(@), !.quantity = Cell(@),
                  !.profit_loss = Cell(@)]

\* the Trade load_portfolio builds from a row of csv.DictReader
TradeOfRow(row) ==
    [row EXCEPT !.price = float(@), !.quantity = float(@),
                !.profit_loss = float(@)]

\* the two files as save_portfolio writes them for the ledger in memory
Written ==
    [exists |-> TRUE, cash |-> cash,
     positions |-> [t \in DOMAIN positions |-> to_dict(positions[t])],
     trades |-> [k \in 1..Len(trades) |-> Row(trades[k])],
     cashBefore |-> cashBefore]

load_portfolio_KeepsMemory ==
    /\ IF store.exists
       THEN /\ cash' = store.cash
            /\ positions' = [t \in DOMAIN store.positions |->
                                from_dict(store.positions[t])]
            /\ trades' = [k \in 1..Len(store.trades) |->
                             TradeOfRow(store.trades[k])]
            /\ cashBefore' = store.cashBefore
       ELSE Unchanged
    /\ last' = [op |-> "__init__", ticker |-> "", ret |-> "None"]

\* Portfolio(): the defaults of __init__, then load_portfolio, which reads
\* the files if they exist
load_portfolio ==
    /\ IF store.exists
       THEN /\ cash' = store.cash
            /\ positions' = [t \in DOMAIN store.positions |->
                                from_dict(store.positions[t])]
            /\ trades' = [k \in 1..Len(store.trades) |->
                             TradeOfRow(store.trades[k])]
            /\ cashBefore' = store.cashBefore
       ELSE /\ cash' = R(INITIAL_BUDGET)
            /\ positions' = [t \in {} |-> 0]
            /\ trades' = <<>>
            /\ cashBefore' = <<>>
    /\ last' = [op |-> "__init__", ticker |-> "", ret |-> "None"]

save_portfolio_Appends ==
    store' = [Written EXCEPT
                !.trades = (IF store.exists THEN store.trades ELSE <<>>)
                           \o @]

\* both files are opened with mode 'w'
save_portfolio == store' = Written

Logged(entry) == hist' = [hist EXCEPT !.log = Append(@, entry)]

\* the scheduler starts a cycle: run_simulation builds a new TradingEngine,
\* which reads the store; trading_loop keeps the engine it built before
\* its loop.  run_trading_cycle begins with check_exit_conditions.
StartCycle ==
    /\ pc = "idle"
    /\ hist.cycles < MaxCycles
    /\ IF scheduler = "continuous_mode"
       THEN load_portfolio
       ELSE Unchanged /\ UNCHANGED last
    /\ pc' = PhaseAfter("start")
    /\ idx' = 1
    /\ hist' = [NoHist EXCEPT !.cycles = hist.cycles + 1,
                              !.prevFailed = hist.failed,
                              !.t0 = Len(trades'),
                              !.pos0 = positions',
                              !.store0 = store]
    /\ UNCHANGED <<positions_to_close, long_candidates, short_candidates,
                   store, scheduler, web>>

\* check_exit_conditions, first loop: one position per step
ExitFetch ==
    /\ pc = "exit_fetch"
    /\ idx <= Len(PositionKeys)
    /\ \E current_price \in Quotes :
         LET ticker == PositionKeys[idx]
             reason == IF Truthy(current_price)
                       THEN should_close_position(ticker, current_price)
                       ELSE NoReason
         IN  /\ positions_to_close' =
                    IF reason # NoReason
                    THEN Append(positions_to_close,
                                [ticker |-> ticker, price |-> current_price,
                                 reason |-> reason])
                    ELSE positions_to_close
             /\ hist' = [hist EXCEPT
                           !.quotes = (ticker :> current_price) @@ @]
    /\ idx' = idx + 1
    /\ Unchanged
    /\ UNCHANGED <<last, pc, long_candidates, short_candidates, store,
                   scheduler, web>>

ExitFetchDone ==
    /\ pc = "exit_fetch"
    /\ idx > Len(PositionKeys)
    /\ pc' = "exit_close"
    /\ idx' = 1
    /\ Unchanged
    /\ UNCHANGED <<last, positions_to_close, long_candidates,
                   short_candidates, store, scheduler, web, hist>>

\* check_exit_conditions, second loop
ExitClose ==
    /\ pc = "exit_close"
    /\ idx <= Len(positions_to_close)
    /\ close_position(positions_to_close[idx].ticker,
                      positions_to_close[idx].price,
                      positions_to_close[idx].reason)
    /\ idx' = idx + 1
    /\ UNCHANGED <<pc, positions_to_close, long_candidates, short_candidates,
                   store, scheduler, web, hist>>

ExitCloseDone ==
    /\ pc = "exit_close"
    /\ idx > Len(positions_to_close)
    /\ pc' = PhaseAfter("exit")
    /\ idx' = 1
    /\ Unchanged
    /\ UNCHANGED <<last, positions_to_close, long_candidates,
                   short_candidates, store, scheduler, web, hist>>

\* the order in which execute_trades goes through its two lists
ExecOrder_ShortsFirst == <<"exec_short", "exec_long">>

ExecOrder == <<"exec_long", "exec_short">>

Scan(tickers) ==
    /\ pc = "scan"
    /\ \E stock_data \in StockData(tickers) :
         /\ long_candidates' = scan_for_opportunities(tickers, stock_data)[1]
         /\ short_candidates' = scan_for_opportunities(tickers, stock_data)[2]
         /\ hist' = [hist EXCEPT !.stock_data = stock_data,
                                 !.held = positions]
    /\ pc' = ExecOrder[1]
    /\ idx' = 1
    /\ Unchanged
    /\ UNCHANGED <<last, positions_to_close, store, scheduler, web>>

\* s back to front
Reversed(s) == [k \in 1..Len(s) |-> s[Len(s) + 1 - k]]

CandidateList_BackToFront(phase) ==
    IF phase = "exec_long" THEN Reversed(long_candidates)
    ELSE Reversed(short_candidates)

CandidateList(phase) ==
    IF phase = "exec_long" THEN long_candidates ELSE short_candidates

\* where execute_trades goes when it leaves the loop of a phase
AfterLoop(phase) ==
    IF phase = ExecOrder[1] THEN ExecOrder[2] ELSE PhaseAfter("entry")

ExecuteStep_StopsAtMissingPrice(phase) ==
    /\ pc = phase
    /\ idx <= Len(CandidateList(phase))
    /\ can_open_position
    /\ \E current_price \in Quotes :
         LET ticker == CandidateList(phase)[idx]
         IN  IF Truthy(current_price)
             THEN /\ IF phase = "exec_long"
                     THEN open_long_position(ticker, current_price)
                     ELSE open_short_position(ticker, current_price)
                  /\ Logged([phase |-> phase, ticker |-> ticker,
                             price |-> current_price, event |-> last'.ret])
                  /\ idx' = idx + 1
                  /\ pc' = pc
             ELSE /\ Unchanged
                  /\ UNCHANGED last
                  /\ Logged([phase |-> phase, ticker |-> ticker,
                             price |-> current_price, event |-> "no price"])
                  /\ idx' = 1
                  /\ pc' = AfterLoop(phase)
    /\ UNCHANGED <<positions_to_close, long_candidates, short_candidates,
                   store, scheduler, web>>

\* one candidate of a loop of execute_trades
ExecuteStep(phase) ==
    /\ pc = phase
    /\ idx <= Len(CandidateList(phase))
    /\ can_open_position
    /\ \E current_price \in Quotes :
         LET ticker == CandidateList(phase)[idx]
         IN  IF Truthy(current_price)
             THEN /\ IF phase = "exec_long"
                     THEN open_long_position(ticker, current_price)
                     ELSE open_short_position(ticker, current_price)
                  /\ Logged([phase |-> phase, ticker |-> ticker,
                             price |-> current_price, event |-> last'.ret])
             ELSE /\ Unchanged
                  /\ UNCHANGED last
                  /\ Logged([phase |-> phase, ticker |-> ticker,
                             price |-> current_price, event |-> "no price"])
    /\ idx' = idx + 1
    /\ UNCHANGED <<pc, positions_to_close, long_candidates, short_candidates,
                   store, scheduler, web>>

\* the loop of a phase ends: its list is exhausted, or `break'
ExecuteLeave(phase) ==
    /\ pc = phase
    /\ IF idx > Len(CandidateList(phase))
       THEN UNCHANGED hist
       ELSE /\ ~can_open_position
            /\ Logged([phase |-> phase, ticker |-> CandidateList(phase)[idx],
                       price |-> NoPrice, event |-> "break"])
    /\ pc' = AfterLoop(phase)
    /\ idx' = 1
    /\ Unchanged
    /\ UNCHANGED <<last, positions_to_close, long_candidates,
                   short_candidates, store, scheduler, web>>

ExecLong == ExecuteStep("exec_long")

ExecLongLeave == ExecuteLeave("exec_long")

ExecShort == ExecuteStep("exec_short")

ExecShortLeave == ExecuteLeave("exec_short")

\* self.portfolio.save_portfolio() of run_trading_cycle
Save ==
    /\ pc = "save"
    /\ save_portfolio
    /\ pc' = "log"
    /\ Unchanged
    /\ UNCHANGED <<last, idx, positions_to_close, long_candidates,
                   short_candidates, scheduler, web, hist>>

\* the locals of run_trading_cycle are gone when it returns
Returned ==
    /\ idx' = 0
    /\ positions_to_close' = <<>>
    /\ long_candidates' = <<>>
    /\ short_candidates' = <<>>

\* get_statistics and the status lines; run_trading_cycle returns
LogStatus ==
    /\ pc = "log"
    /\ pc' = "returned"
    /\ Returned
    /\ Unchanged
    /\ UNCHANGED <<last, store, scheduler, web, hist>>

ExceptHandler_Saves ==
    /\ pc' = "returned"
    /\ save_portfolio
    /\ hist' = [hist EXCEPT !.failed = TRUE, !.raisedAt = pc]

ExceptHandler_Reraises ==
    /\ pc' = "scheduler_except"
    /\ store' = store
    /\ hist' = [hist EXCEPT !.failed = TRUE, !.raisedAt = pc]

\* `except Exception' of run_trading_cycle: the error is logged and the
\* method returns
ExceptHandler ==
    /\ pc' = "returned"
    /\ store' = store
    /\ hist' = [hist EXCEPT !.failed = TRUE, !.raisedAt = pc]

\* the statements of the try block that an exception can leave
TryBlock == {"exit_fetch", "exit_close", "scan", "exec_long", "exec_short",
             "log"}

\* an exception is raised inside the try block of run_trading_cycle
Raise ==
    /\ pc \in TryBlock
    /\ ExceptHandler
    /\ Returned
    /\ Unchanged
    /\ UNCHANGED <<last, scheduler, web>>

\* back in the scheduler: the summary is logged and the loop sleeps
Sleep(failedCycle) ==
    /\ pc' = "idle"
    /\ hist' = [NoHist EXCEPT !.cycles = hist.cycles, !.failed = failedCycle]
    /\ Unchanged
    /\ UNCHANGED <<last, idx, positions_to_close, long_candidates,
                   short_candidates, store, scheduler, web>>

Summary ==
    /\ pc = "returned"
    /\ Sleep(hist.failed)

\* get_portfolio_summary or log_performance raises: `except Exception' of
\* run_simulation, or of the loop body of trading_loop
SummaryRaises ==
    /\ pc = "returned"
    /\ pc' = "scheduler_except"
    /\ hist' = [hist EXCEPT !.summaryFailed = TRUE]
    /\ Unchanged
    /\ UNCHANGED <<last, idx, positions_to_close, long_candidates,
                   short_candidates, store, scheduler, web>>

SchedulerExcept ==
    /\ pc = "scheduler_except"
    /\ Sleep(hist.failed)

NextCycle ==
    \/ StartCycle
    \/ ExitFetch
    \/ ExitFetchDone
    \/ ExitClose
    \/ ExitCloseDone
    \/ Scan(Universe)
    \/ ExecLong
    \/ ExecLongLeave
    \/ ExecShort
    \/ ExecShortLeave
    \/ Save
    \/ LogStatus
    \/ Raise
    \/ Summary
    \/ SummaryRaises
    \/ SchedulerExcept

InitCycle == DefaultLedger /\ \E sch \in Schedulers : EngineStart(sch)

SpecCycle == InitCycle /\ [][NextCycle]_vars

(***************************************************************************)
(* check_exit_conditions with two positions open.  SpecCheckExit starts    *)
(* where a cycle of trading_loop starts it: X and Y were opened at 100 by  *)
(* an earlier cycle, which saved them.                                     *)
(***************************************************************************)
PositionAt(ticker, ty, price) ==
    IF ty = "long" THEN LongPosition(ticker, price)
    ELSE ShortPosition(ticker, price)

OpeningTradeOf(position) ==
    IF position.position_type = "long"
    THEN OpeningTrade(position.ticker, "BUY", position.entry_price,
                      position.quantity,
                      "Price dropped 5% - buying opportunity")
    ELSE OpeningTrade(position.ticker, "SHORT", position.entry_price,
                      position.quantity,
                      "Price jumped 10% - shorting opportunity")

InitCheckExit ==
    \E tyX \in {"long", "short"}, tyY \in {"long", "short"} :
        /\ positions = ("X" :> PositionAt("X", tyX, R(100)))
                       @@ ("Y" :> PositionAt("Y", tyY, R(100)))
        /\ trades = << OpeningTradeOf(PositionAt("X", tyX, R(100))),
                       OpeningTradeOf(PositionAt("Y", tyY, R(100))) >>
        /\ cashBefore = << R(INITIAL_BUDGET),
                           R(INITIAL_BUDGET - POSITION_SIZE) >>
        /\ cash = R(INITIAL_BUDGET - 2 * POSITION_SIZE)
        /\ last = [op |-> IF tyY = "long" THEN "open_long_position"
                          ELSE "open_short_position",
                   ticker |-> "Y", ret |-> "True"]
        /\ store = Written
        /\ scheduler = "trading_loop"
        /\ web = NoWeb
        /\ pc = "exit_fetch"
        /\ idx = 1
        /\ positions_to_close = <<>>
        /\ long_candidates = <<>>
        /\ short_candidates = <<>>
        /\ hist = [NoHist EXCEPT !.cycles = 2, !.t0 = Len(trades),
                                 !.pos0 = positions, !.store0 = store]

NextCheckExit ==
    \/ ExitFetch
    \/ ExitFetchDone
    \/ ExitClose
    \/ ExitCloseDone

SpecCheckExit == InitCheckExit /\ [][NextCheckExit]_vars

(***************************************************************************)
(* execute_trades with capacity for one more position.  SpecExec starts    *)
(* from the ledger of SpecCap, saved by the cycle before, where            *)
(* scan_for_opportunities has just returned its two lists.                 *)
(***************************************************************************)
ExecTickers == {"X", "Y", "Z"}

\* the lists scan_for_opportunities can return, up to two candidates each:
\* a ticker that the tracked list repeats is a candidate twice, and no
\* ticker is in both lists
CandidateLists ==
    {<<>>} \cup {<<t>> : t \in ExecTickers}
           \cup {<<t, u>> : t \in ExecTickers, u \in ExecTickers}

InitExec ==
    /\ CapLedger
    /\ store = Written
    /\ scheduler = "trading_loop"
    /\ web = NoWeb
    /\ pc = ExecOrder[1]
    /\ idx = 1
    /\ positions_to_close = <<>>
    /\ long_candidates \in CandidateLists
    /\ short_candidates \in CandidateLists
    /\ \A j \in 1..Len(long_candidates), k \in 1..Len(short_candidates) :
          long_candidates[j] # short_candidates[k]
    /\ hist = [NoHist EXCEPT !.cycles = 2, !.t0 = Len(trades),
                             !.pos0 = positions, !.store0 = store]

NextExec ==
    \/ ExecLong
    \/ ExecLongLeave
    \/ ExecShort
    \/ ExecShortLeave

SpecExec == InitExec /\ [][NextExec]_vars

(***************************************************************************)
(* One cycle from check_exit_conditions to the end of execute_trades.      *)
(* SpecRound starts where SpecCheckExit starts, with X and Y held, and     *)
(* scans a tracked list of three tickers that names one of them twice, as  *)
(* the fallback list of get_sp500_companies does.                          *)
(***************************************************************************)
RoundUniverse == <<"X", "Y", "Z", "Z">>

NextRound ==
    \/ ExitFetch
    \/ ExitFetchDone
    \/ ExitClose
    \/ ExitCloseDone
    \/ Scan(RoundUniverse)
    \/ ExecLong
    \/ ExecLongLeave
    \/ ExecShort
    \/ ExecShortLeave

SpecRound == InitCheckExit /\ [][NextRound]_vars

(***************************************************************************)
(* DataFetcher.calculate_price_change called on its own.  SpecChange calls *)
(* it on every series of up to MaxSeriesLen closes and every look-back of  *)
(* up to MaxDays days.                                                     *)
(***************************************************************************)
MaxSeriesLen == 4

MaxDays == 3

SeriesPrices == {R(95), R(100), R(110)}

Series == UNION {[1..n -> SeriesPrices] : n \in 0..MaxSeriesLen}

CalculatePriceChange(data, days) ==
    /\ last' = [op |-> "calculate_price_change", ticker |-> "",
                ret |-> IF calculate_price_change(data, days) = NoPrice
                        THEN "None" ELSE "float",
                data |-> data, days |-> days,
                value |-> calculate_price_change(data, days)]
    /\ Unchanged

NextChange ==
    \E data \in Series, days \in 0..MaxDays :
        CalculatePriceChange(data, days) /\ Detached

SpecChange == Init /\ [][NextChange]_vars

(***************************************************************************)
(* The operations that change the ledger together with those that only     *)
(* read it: SpecFrame interleaves opens and closes with calls of           *)
(* should_close_position, get_portfolio_value and get_statistics.          *)
(***************************************************************************)
NextFrame ==
    \/ Step(Tickers, StatPrices, MaxTrades)
    \/ \E t \in Tickers, p \in StatPrices : ShouldClose(t, p) /\ Detached
    \/ \E cp \in PriceMaps : GetPortfolioValue(cp) /\ Detached
    \/ GetStatistics /\ Detached

SpecFrame == Init /\ [][NextFrame]_vars

(***************************************************************************)
(* A Portfolio and its files.  SpecStore interleaves opens and closes with *)
(* save_portfolio and with the construction of a new Portfolio, which      *)
(* replaces the one in memory by what load_portfolio reads.                *)
(***************************************************************************)
SavePortfolio ==
    /\ save_portfolio
    /\ Unchanged
    /\ Call("save_portfolio", "", "None")
    /\ UNCHANGED <<pc, idx, positions_to_close, long_candidates,
                   short_candidates, scheduler, web, hist>>

NewPortfolio ==
    /\ load_portfolio
    /\ UNCHANGED engineVars

NextStore ==
    \/ Step({"X"}, StatPrices, MaxTrades + 1)
    \/ SavePortfolio
    \/ NewPortfolio

SpecStore == Init /\ [][NextStore]_vars

(***************************************************************************)
(* TradingEngine.get_portfolio_summary.  SpecSummary calls it between      *)
(* opens and closes, with every answer of get_current_price for each open  *)
(* position.                                                               *)
(***************************************************************************)
\* quotes maps each open position's ticker to what get_current_price
\* returned for it; `if price:' decides which of them are passed on
get_portfolio_summary(quotes) ==
    LET stats == get_statistics
        current_prices == [t \in {u \in DOMAIN quotes : Truthy(quotes[u])}
                             |-> quotes[t]]
        portfolio_value == get_portfolio_value(current_prices)
        total_return == RDiv(RSub(portfolio_value, R(INITIAL_BUDGET)),
                             R(INITIAL_BUDGET))
    IN  [initial_budget |-> R(INITIAL_BUDGET),
         current_value |-> portfolio_value,
         total_return |-> total_return,
         cash |-> stats.cash,
         active_positions |-> stats.active_positions,
         total_trades |-> stats.total_trades,
         profitable_trades |-> stats.profitable_trades,
         losing_trades |-> stats.losing_trades,
         win_rate |-> stats.win_rate,
         total_profit |-> stats.total_profit]

GetPortfolioSummary(quotes) ==
    /\ Unchanged
    /\ last' = [op |-> "get_portfolio_summary", ticker |-> "", ret |-> "dict",
                quotes |-> quotes, summary |-> get_portfolio_summary(quotes)]

NextSummary ==
    \/ Step(Tickers, StatPrices, MaxTrades)
    \/ \E quotes \in [DOMAIN positions -> Quotes] :
          GetPortfolioSummary(quotes) /\ Detached

SpecSummary == Init /\ [][NextSummary]_vars

(***************************************************************************)
(* Closing at a heavy loss while cash is low.  SpecLoss starts from the    *)
(* ledger of SpecCap (cash 20, one free slot) and closes at a price more   *)
(* than three times the entry price.                                       *)
(***************************************************************************)
LossPrices == {R(50), R(160)}

NextLoss == Step(CapTickers, LossPrices, NumHeld + 2 + MaxTrades)

SpecLoss == InitCap /\ [][NextLoss]_vars

(***************************************************************************)
(* keep_alive.py: trading_loop in the main thread and the Flask server in  *)
(* a daemon thread.  The status route can be served between any two steps  *)
(* of the trading thread, and save_portfolio writes its two files one      *)
(* after the other, so SpecStatus takes the save in two steps.             *)
(***************************************************************************)
\* what load_portfolio reads from a store st into a new Portfolio
Loaded(st) ==
    IF st.exists
    THEN [cash |-> st.cash,
          positions |-> [t \in DOMAIN st.positions |->
                            from_dict(st.positions[t])],
          trades |-> [k \in 1..Len(st.trades) |-> TradeOfRow(st.trades[k])]]
    ELSE [cash |-> R(INITIAL_BUDGET), positions |-> [t \in {} |-> 0],
          trades |-> <<>>]

\* json.dump to POSITIONS_FILE
SavePositionsFile ==
    /\ pc = "save"
    /\ store' = [store EXCEPT !.exists = TRUE, !.cash = Written.cash,
                              !.positions = Written.positions]
    /\ pc' = "save_trades"
    /\ Unchanged
    /\ UNCHANGED <<last, idx, positions_to_close, long_candidates,
                   short_candidates, scheduler, web, hist>>

\* the rows written to TRADES_FILE
SaveTradesFile ==
    /\ pc = "save_trades"
    /\ store' = [store EXCEPT !.trades = Written.trades,
                              !.cashBefore = Written.cashBefore]
    /\ pc' = "log"
    /\ Unchanged
    /\ UNCHANGED <<last, idx, positions_to_close, long_candidates,
                   short_candidates, scheduler, web, hist>>

Status_ReadsLive ==
    /\ web' = [served |-> TRUE, cash |-> cash, positions |-> positions,
               trades |-> trades]
    /\ Unchanged
    /\ UNCHANGED <<last, pc, idx, positions_to_close, long_candidates,
                   short_candidates, store, scheduler, hist>>

\* status(): TradingEngine() builds a Portfolio of its own from the files
Status ==
    /\ web' = [served |-> TRUE, cash |-> Loaded(store).cash,
               positions |-> Loaded(store).positions,
               trades |-> Loaded(store).trades]
    /\ Unchanged
    /\ UNCHANGED <<last, pc, idx, positions_to_close, long_candidates,
                   short_candidates, store, scheduler, hist>>

NextStatus ==
    \/ StartCycle
    \/ ExitFetch
    \/ ExitFetchDone
    \/ ExitClose
    \/ ExitCloseDone
    \/ Scan(Universe)
    \/ ExecLong
    \/ ExecLongLeave
    \/ ExecShort
    \/ ExecShortLeave
    \/ SavePositionsFile
    \/ SaveTradesFile
    \/ LogStatus
    \/ Raise
    \/ Summary
    \/ SummaryRaises
    \/ SchedulerExcept
    \/ Status

InitStatus == DefaultLedger /\ EngineStart("trading_loop")

SpecStatus == InitStatus /\ [][NextStatus]_vars

(***************************************************************************)
(* Longer histories on two tickers.  SpecHistory runs opens and closes of  *)
(* X and Y at prices 50 and 100 from the default ledger until the history  *)
(* holds MaxTrades + 1 records, enough for a ticker to be opened, closed   *)
(* and opened again, or closed while the other one is held.                *)
(***************************************************************************)
NextHistory == Step(Tickers, StatPrices, MaxTrades + 1)

SpecHistory == Init /\ [][NextHistory]_vars

(***************************************************************************)
(* LONG positions only.  SpecLong starts from the ledger of SpecCap, which *)
(* was reached by LONG positions alone (cash 20, 99 positions held), and   *)
(* opens LONG positions and closes positions at prices down to 0.          *)
(***************************************************************************)
LongPrices == {R(0), R(50), R(103)}

NextLong ==
    \/ \E t \in CapTickers, p \in LongPrices :
          /\ open_long_position(t, p)
          /\ Bounded(NumHeld + 2 + MaxTrades)
          /\ Detached
    \/ \E t \in CapTickers, p \in LongPrices, r \in Reasons :
          /\ close_position(t, p, r)
          /\ Bounded(NumHeld + 2 + MaxTrades)
          /\ Detached

SpecLong == InitCap /\ [][NextLong]_vars

(***************************************************************************)
(* One cycle of trading_loop with its summary.  SpecZero starts where      *)
(* SpecCheckExit starts, with X and Y held, tracks the single ticker Z,    *)
(* and goes on through save_portfolio and the status lines to the call of  *)
(* get_portfolio_summary that follows run_trading_cycle.                   *)
(***************************************************************************)
ZeroUniverse == <<"Z">>

\* engine.get_portfolio_summary() after engine.run_trading_cycle()
SummaryCall ==
    /\ pc = "returned"
    /\ \E quotes \in [DOMAIN positions -> Quotes] :
          GetPortfolioSummary(quotes)
    /\ pc' = "summarised"
    /\ UNCHANGED <<idx, positions_to_close, long_candidates,
                   short_candidates, store, scheduler, web, hist>>

NextZero ==
    \/ ExitFetch
    \/ ExitFetchDone
    \/ ExitClose
    \/ ExitCloseDone
    \/ Scan(ZeroUniverse)
    \/ ExecLong
    \/ ExecLongLeave
    \/ ExecShort
    \/ ExecShortLeave
    \/ Save
    \/ LogStatus
    \/ SummaryCall

SpecZero == InitCheckExit /\ [][NextZero]_vars

(***************************************************************************)
(* The operations that only read.  SpecReadOnly adds calls of              *)
(* can_open_position and of scan_for_opportunities on the list X, Y to the *)
(* steps of SpecFrame.                                                     *)
(***************************************************************************)
CanOpenPosition_Reserves ==
    /\ cash' = IF can_open_position THEN CashAfterOpen ELSE cash
    /\ UNCHANGED <<positions, trades, cashBefore>>
    /\ Call("can_open_position", "",
            IF can_open_position THEN "True" ELSE "False")

\* a call of can_open_position
CanOpenPosition ==
    /\ Unchanged
    /\ Call("can_open_position", "",
            IF can_open_position THEN "True" ELSE "False")

\* a call of scan_for_opportunities on its own
ScanForOpportunities(tickers) ==
    /\ Unchanged
    /\ \E stock_data \in StockData(tickers) :
          last' = [op |-> "scan_for_opportunities", ticker |-> "",
                   ret |-> "tuple",
                   long_candidates |->
                       scan_for_opportunities(tickers, stock_data)[1],
                   short_candidates |->
                       scan_for_opportunities(tickers, stock_data)[2]]

NextReadOnly ==
    \/ NextFrame
    \/ CanOpenPosition /\ Detached
    \/ ScanForOpportunities(<<"X", "Y">>) /\ Detached

SpecReadOnly == Init /\ [][NextReadOnly]_vars

(***************************************************************************)
(* Properties of the ledger operations                                     *)
(***************************************************************************)
IsOpening(tr) == tr.action \in {"BUY", "SHORT"}

IsClosing(tr) == tr.action \in {"SELL", "COVER"}

\* the step is a call of op on ticker t: every operation records itself in
\* `last', so this is implied by the operation's own formula and only
\* selects the steps each property below speaks about
StepOf(op, t) == last'.op = op /\ last'.ticker = t

\* the cash balance right after the operation that appended trade j
CashAfter(j) == IF j < Len(trades) THEN cashBefore[j + 1] ELSE cash

\* C1: round-trip conservation.  When a ticker's opening trade is directly
\* followed in the history by its closing trade (no other position was
\* opened or closed in between), the cash after the close equals the cash
\* before the open plus the profit_loss realized by the close.
C1_RoundTripConservation ==
    \A i \in 1..(Len(trades) - 1) :
        ( /\ IsOpening(trades[i])
          /\ IsClosing(trades[i + 1])
          /\ trades[i].ticker = trades[i + 1].ticker )
        => CashAfter(i + 1) = RAdd(cashBefore[i], trades[i + 1].profit_loss)

C1_Witness ==
    /\ Len(trades) = 2
    /\ trades[1].action = "SHORT"
    /\ trades[2].action = "COVER"
    /\ trades[1].ticker = trades[2].ticker
    /\ trades[2].profit_loss # Zero
    /\ last.op = "close_position"
    /\ last.ret = "True"

\* what the claim says a successful close of ticker t at price p does
C5_Closed(t, p, r) ==
    LET pos == positions[t]
        pl == IF pos.position_type = "long"
              THEN RMul(RSub(p, pos.entry_price), pos.quantity)
              ELSE RMul(RSub(pos.entry_price, p), pos.quantity)
    IN  /\ last'.ret = "True"
        /\ cash' = RAdd(RAdd(cash, R(POSITION_SIZE)), pl)
        /\ DOMAIN positions' = DOMAIN positions \ {t}
        /\ \A u \in DOMAIN positions' : positions'[u] = positions[u]
        /\ Len(trades') = Len(trades) + 1
        /\ SubSeq(trades', 1, Len(trades)) = trades
        /\ trades'[Len(trades')] =
              [ticker |-> t,
               action |-> IF pos.position_type = "long" THEN "SELL" ELSE "COVER",
               price |-> p, quantity |-> pos.quantity,
               profit_loss |-> pl, reason |-> r]
        /\ ( /\ pos.position_type = "long"
             /\ pos.entry_price = R(100)
             /\ p = R(103)
             /\ cash = R(990) )
           => /\ pl = Norm(3, 10)
              /\ cash' = Norm(10003, 10)

\* C5: a successful close_position(ticker, exit_price, reason) realizes
\* (exit - entry) * quantity for a LONG and (entry - exit) * quantity for a
\* SHORT, credits cash by POSITION_SIZE + profit_loss, removes the ticker
\* from positions and appends exactly one SELL (LONG) or COVER (SHORT) trade
\* carrying that profit_loss and the reason; LONG X opened at 100 and closed
\* at 103 yields profit_loss 0.3 and cash 1000.3.
C5_CloseEffect ==
    [][\A t \in Tickers, p \in Prices, r \in Reasons :
          (StepOf("close_position", t) /\ t \in DOMAIN positions
              /\ close_position(t, p, r))
          => C5_Closed(t, p, r)]_vars

C5_Witness ==
    /\ last = [op |-> "close_position", ticker |-> "X", ret |-> "True"]
    /\ Len(trades) = 2
    /\ trades[1].action = "BUY"
    /\ trades[1].price = R(100)
    /\ trades[2] = [ticker |-> "X", action |-> "SELL", price |-> R(103),
                    quantity |-> Norm(1, 10), profit_loss |-> Norm(3, 10),
                    reason |-> "Take profit reached"]
    /\ cash = Norm(10003, 10)
    /\ "X" \notin DOMAIN positions

\* C6: close_position on a ticker without an open position returns False
\* and leaves cash, positions and the trade history unchanged.
C6_CloseMissingIsNoop ==
    [][\A t \in Tickers, p \in Prices, r \in Reasons :
          (StepOf("close_position", t) /\ t \notin DOMAIN positions
              /\ close_position(t, p, r))
          => (last'.ret = "False" /\ UNCHANGED ledger)]_vars

C6_Witness ==
    /\ last.op = "close_position"
    /\ last.ret = "False"
    /\ last.ticker \notin DOMAIN positions
    /\ DOMAIN positions # {}

\* what the claim says a successful open_long_position(t, p) does
C7_OpenedLong(t, p) ==
    LET pos == [ticker |-> t, position_type |-> "long", entry_price |-> p,
                quantity |-> RDiv(R(POSITION_SIZE), p),
                stop_loss |-> RMul(Norm(95, 100), p),
                take_profit |-> RMul(Norm(103, 100), p)]
    IN  /\ last'.ret = "True"
        /\ DOMAIN positions' = DOMAIN positions \cup {t}
        /\ positions'[t] = pos
        /\ \A u \in DOMAIN positions : positions'[u] = positions[u]
        /\ RLt(pos.stop_loss, p)
        /\ RLt(p, pos.take_profit)
        /\ cash' = RSub(cash, R(POSITION_SIZE))
        /\ Len(trades') = Len(trades) + 1
        /\ SubSeq(trades', 1, Len(trades)) = trades
        /\ trades'[Len(trades')].ticker = t
        /\ trades'[Len(trades')].action = "BUY"
        /\ trades'[Len(trades')].price = p
        /\ trades'[Len(trades')].quantity = pos.quantity
        /\ trades'[Len(trades')].profit_loss = Zero
        /\ (p = R(100) /\ cash = R(1000))
           => /\ positions'[t].quantity = Norm(1, 10)
              /\ positions'[t].stop_loss = R(95)
              /\ positions'[t].take_profit = R(103)
              /\ cash' = R(990)

\* C7: a successful open_long_position(ticker, p) creates a LONG position
\* with quantity POSITION_SIZE / p, stop_loss 0.95 p below the entry and
\* take_profit 1.03 p above it, debits cash by exactly POSITION_SIZE and
\* appends exactly one BUY trade with profit_loss 0; X at 100 from the
\* initial budget gives quantity 0.1, stop 95, take 103, cash 990.
C7_OpenLongEffect ==
    [][\A t \in Tickers, p \in Prices :
          (StepOf("open_long_position", t) /\ ~OpenRefused(t) /\ p # Zero
              /\ open_long_position(t, p))
          => C7_OpenedLong(t, p)]_vars

C7_Witness ==
    /\ last = [op |-> "open_long_position", ticker |-> "X", ret |-> "True"]
    /\ DOMAIN positions = {"X"}
    /\ positions["X"] = [ticker |-> "X", position_type |-> "long",
                         entry_price |-> R(100), quantity |-> Norm(1, 10),
                         stop_loss |-> R(95), take_profit |-> R(103)]
    /\ cash = R(990)
    /\ Len(trades) = 1
    /\ trades[1].action = "BUY"
    /\ trades[1].profit_loss = Zero

\* what the claim says a successful open_short_position(t, p) does
C8_OpenedShort(t, p) ==
    LET pos == [ticker |-> t, position_type |-> "short", entry_price |-> p,
                quantity |-> RDiv(R(POSITION_SIZE), p),
                stop_loss |-> RMul(Norm(105, 100), p),
                take_profit |-> RMul(Norm(97, 100), p)]
    IN  /\ last'.ret = "True"
        /\ DOMAIN positions' = DOMAIN positions \cup {t}
        /\ positions'[t] = pos
        /\ \A u \in DOMAIN positions : positions'[u] = positions[u]
        /\ RLt(pos.take_profit, p)
        /\ RLt(p, pos.stop_loss)
        /\ cash' = RSub(cash, R(POSITION_SIZE))
        /\ Len(trades') = Len(trades) + 1
        /\ SubSeq(trades', 1, Len(trades)) = trades
        /\ trades'[Len(trades')].ticker = t
        /\ trades'[Len(trades')].action = "SHORT"
        /\ trades'[Len(trades')].price = p
        /\ trades'[Len(trades')].quantity = pos.quantity
        /\ trades'[Len(trades')].profit_loss = Zero
        /\ p = R(50)
           => /\ positions'[t].quantity = Norm(1, 5)
              /\ positions'[t].take_profit = Norm(97, 2)
              /\ positions'[t].stop_loss = Norm(105, 2)

\* the example's close: a SHORT entered at 50 and closed at 48 realizes 0.4
C8_ShortExampleClosed(t, r) ==
    ( /\ StepOf("close_position", t)
      /\ t \in DOMAIN positions
      /\ positions[t].position_type = "short"
      /\ positions[t].entry_price = R(50)
      /\ close_position(t, R(48), r) )
    => trades'[Len(trades')].profit_loss = Norm(2, 5)

\* C8: a successful open_short_position(ticker, p) creates a SHORT position
\* with quantity POSITION_SIZE / p, take_profit 0.97 p below the entry and
\* stop_loss 1.05 p above it, debits cash by exactly POSITION_SIZE and
\* appends exactly one SHORT trade with profit_loss 0; Y at 50 gives
\* quantity 0.2, take 48.5, stop 52.5, and closing it at 48 realizes 0.4.
C8_OpenShortEffect ==
    [][/\ \A t \in Tickers, p \in Prices :
             (StepOf("open_short_position", t) /\ ~OpenRefused(t)
                 /\ p # Zero /\ open_short_position(t, p))
             => C8_OpenedShort(t, p)
       /\ \A t \in Tickers, r \in Reasons : C8_ShortExampleClosed(t, r)]_vars

C8_Witness ==
    /\ last = [op |-> "close_position", ticker |-> "Y", ret |-> "True"]
    /\ Len(trades) = 2
    /\ trades[1].action = "SHORT"
    /\ trades[1].ticker = "Y"
    /\ trades[1].price = R(50)
    /\ trades[1].quantity = Norm(1, 5)
    /\ trades[1].profit_loss = Zero
    /\ trades[2].action = "COVER"
    /\ trades[2].price = R(48)
    /\ trades[2].profit_loss = Norm(2, 5)
    /\ cashBefore[2] = R(990)

(***************************************************************************)
(* Properties at the capacity limit                                        *)
(***************************************************************************)
OpenCount(t) ==
    Cardinality({i \in 1..Len(trades) :
                    trades[i].ticker = t /\ IsOpening(trades[i])})

CloseCount(t) ==
    Cardinality({i \in 1..Len(trades) :
                    trades[i].ticker = t /\ IsClosing(trades[i])})

\* every ticker of the history has at most one entry that is not closed
\* yet, and has one exactly when it is in the positions mapping
OnePositionPerTicker ==
    \A t \in {trades[i].ticker : i \in 1..Len(trades)} \cup DOMAIN positions :
        /\ OpenCount(t) - CloseCount(t) \in {0, 1}
        /\ (OpenCount(t) - CloseCount(t) = 1) <=> (t \in DOMAIN positions)

\* C2: a failed open is a no-op.  open_long_position and
\* open_short_position return False and leave cash, positions and the trade
\* history unchanged whenever the ticker already has an open position or
\* capacity is unavailable; hence no ticker ever has two open positions.
C2_FailedOpenIsNoop ==
    /\ []OnePositionPerTicker
    /\ [][\A t \in CapTickers, p \in CapPrices :
             ( /\ t \in DOMAIN positions \/ ~can_open_position
               /\ \/ StepOf("open_long_position", t)
                     /\ open_long_position(t, p)
                  \/ StepOf("open_short_position", t)
                     /\ open_short_position(t, p) )
             => (last'.ret = "False" /\ UNCHANGED ledger)]_vars

C2_Witness ==
    /\ last.op = "open_short_position"
    /\ last.ret = "False"
    /\ last.ticker \in DOMAIN positions
    /\ can_open_position
    /\ positions[last.ticker].position_type = "long"

\* C3: the number of open positions never exceeds MAX_POSITIONS.
C3_AtMostMaxPositions == Cardinality(DOMAIN positions) <= MAX_POSITIONS

C3_Witness ==
    /\ Cardinality(DOMAIN positions) = MAX_POSITIONS
    /\ RGe(cash, R(POSITION_SIZE))
    /\ last.op \in {"open_long_position", "open_short_position"}
    /\ last.ret = "False"
    /\ last.ticker \notin DOMAIN positions

\* C4: can_open_position is false if and only if cash < POSITION_SIZE or
\* the number of open positions equals MAX_POSITIONS.
C4_CanOpenIff ==
    (~can_open_position)
    <=> ( \/ RLt(cash, R(POSITION_SIZE))
          \/ Cardinality(DOMAIN positions) = MAX_POSITIONS )

C4_Witness ==
    /\ RLt(cash, R(POSITION_SIZE))
    /\ Cardinality(DOMAIN positions) < MAX_POSITIONS
    /\ ~can_open_position
    /\ last.op \in {"open_long_position", "open_short_position"}
    /\ last.ret = "False"
    /\ last.ticker \notin DOMAIN positions

(***************************************************************************)
(* Properties of the exit rule                                             *)
(***************************************************************************)
AskedAbout(ty) ==
    /\ last.op = "should_close_position"
    /\ last.ticker \in DOMAIN positions
    /\ positions[last.ticker].position_type = ty

\* C9: for a LONG position should_close_position answers "Take profit
\* reached" at every price >= take_profit, "Stop loss triggered" at every
\* price <= stop_loss that is also < take_profit, and no reason at every
\* price strictly between stop_loss and take_profit; take-profit is tested
\* first.
C9_LongExit ==
    AskedAbout("long") =>
        LET pos == positions[last.ticker]
            p == last.price
        IN  /\ RGe(p, pos.take_profit) => last.ret = "Take profit reached"
            /\ (RLe(p, pos.stop_loss) /\ RLt(p, pos.take_profit))
               => last.ret = "Stop loss triggered"
            /\ (RLt(pos.stop_loss, p) /\ RLt(p, pos.take_profit))
               => last.ret = "None"

C9_Witness ==
    /\ AskedAbout("long")
    /\ RGe(last.price, positions[last.ticker].take_profit)
    /\ RLe(last.price, positions[last.ticker].stop_loss)
    /\ last.ret = "Take profit reached"

\* C10: for a SHORT position should_close_position answers "Take profit
\* reached" at every price <= take_profit, otherwise "Stop loss triggered"
\* at every price >= stop_loss, otherwise no reason; when both conditions
\* hold take-profit wins.
C10_ShortExit ==
    AskedAbout("short") =>
        LET pos == positions[last.ticker]
            p == last.price
        IN  IF RLe(p, pos.take_profit)
            THEN last.ret = "Take profit reached"
            ELSE IF RGe(p, pos.stop_loss)
                 THEN last.ret = "Stop loss triggered"
                 ELSE last.ret = "None"

C10_Witness ==
    /\ AskedAbout("short")
    /\ RLe(last.price, positions[last.ticker].take_profit)
    /\ RGe(last.price, positions[last.ticker].stop_loss)
    /\ last.ret = "Take profit reached"

(***************************************************************************)
(* Properties of the read-only views                                       *)
(***************************************************************************)
\* C11: get_statistics reports total_trades = length of the history,
\* profitable_trades = number of trades with profit_loss > 0, losing_trades
\* = number with profit_loss < 0 (trades with profit_loss = 0 are in
\* neither bucket but in the total), and win_rate = profitable_trades /
\* total_trades, or 0 when there are no trades.
C11_Statistics ==
    last.op = "get_statistics" =>
        LET st == last.stats
            wins == {i \in 1..Len(trades) : trades[i].profit_loss.num > 0}
            losses == {i \in 1..Len(trades) : trades[i].profit_loss.num < 0}
            flat == {i \in 1..Len(trades) : trades[i].profit_loss.num = 0}
        IN  /\ st.total_trades = Len(trades)
            /\ st.profitable_trades = Cardinality(wins)
            /\ st.losing_trades = Cardinality(losses)
            /\ st.total_trades
                 = st.profitable_trades + st.losing_trades + Cardinality(flat)
            /\ IF Len(trades) = 0
               THEN st.win_rate = Zero
               ELSE st.win_rate = Norm(Cardinality(wins), Len(trades))

C11_Witness ==
    /\ last.op = "get_statistics"
    /\ last.stats.total_trades = 4
    /\ last.stats.profitable_trades = 1
    /\ last.stats.losing_trades = 1
    /\ last.stats.win_rate = Norm(1, 4)

\* the value the claim gives ticker t under the prices cp
C12_ValueOf(t, cp) ==
    IF t \notin DOMAIN positions THEN Zero
    ELSE IF t \notin DOMAIN cp THEN R(POSITION_SIZE)
    ELSE IF positions[t].position_type = "long"
         THEN RMul(cp[t], positions[t].quantity)
         ELSE RAdd(R(POSITION_SIZE),
                   RMul(RSub(positions[t].entry_price, cp[t]),
                        positions[t].quantity))

\* C12: get_portfolio_value(current_prices) is cash plus, per open
\* position, current_price * quantity for a LONG, POSITION_SIZE +
\* (entry_price - current_price) * quantity for a SHORT, and exactly
\* POSITION_SIZE for a position whose ticker has no price; a missing price
\* never makes the computation fail.
C12_PortfolioValue ==
    last.op = "get_portfolio_value" =>
        /\ DOMAIN positions \subseteq Tickers
        /\ last.value = RAdd(RAdd(cash, C12_ValueOf("X", last.current_prices)),
                             C12_ValueOf("Y", last.current_prices))

C12_Witness ==
    /\ last.op = "get_portfolio_value"
    /\ DOMAIN positions = {"X", "Y"}
    /\ positions["X"].position_type = "short"
    /\ positions["X"].entry_price = R(100)
    /\ positions["Y"].position_type = "long"
    /\ DOMAIN last.current_prices = {"X"}
    /\ last.current_prices["X"] = R(50)
    /\ last.value = RAdd(R(980), RAdd(R(15), R(10)))

(***************************************************************************)
(* Properties of the trading engine                                        *)
(***************************************************************************)
\* a cycle is running, or has returned and the scheduler not yet slept
InCycle == pc # "idle"

\* the trades the running cycle has appended
CycleTrades == SubSeq(trades, hist.t0 + 1, Len(trades))

\* check_exit_conditions has returned
ExitCheckDone == pc = "scan"

\* what check_exit_conditions did, given which of the fetched prices count
\* as available: the positions with an available price and a reason at
\* that price are closed at that price with that reason, in the order of
\* the positions, and the others are as they were
ExitCheckEffect(available) ==
    LET due == {t \in DOMAIN hist.pos0 :
                  /\ available[t]
                  /\ ExitReason(hist.pos0[t], hist.quotes[t]) # NoReason}
    IN  /\ DOMAIN positions = DOMAIN hist.pos0 \ due
        /\ \A t \in DOMAIN positions : positions[t] = hist.pos0[t]
        /\ Len(CycleTrades) = Cardinality(due)
        /\ \A t \in due :
             \E j \in 1..Len(CycleTrades) :
                /\ CycleTrades[j].ticker = t
                /\ CycleTrades[j].action = CloseAction(hist.pos0[t])
                /\ CycleTrades[j].price = hist.quotes[t]
                /\ CycleTrades[j].reason
                     = ExitReason(hist.pos0[t], hist.quotes[t])

\* C13: check_exit_conditions closes exactly those open positions for
\* which a current price is available and should_close_position returns a
\* reason at that price, at that price and with that reason; every other
\* position remains open and unchanged.
C13_ExitCheck ==
    ExitCheckDone =>
        ExitCheckEffect([t \in DOMAIN hist.pos0 |-> hist.quotes[t] # NoPrice])

\* the same with a price of 0 counted as unavailable
C13_ExitCheckNonZeroPrices ==
    ExitCheckDone =>
        ExitCheckEffect([t \in DOMAIN hist.pos0 |-> Truthy(hist.quotes[t])])

\* both prices are positive, X is due and is closed, Y is not and stays
C13_Witness ==
    /\ ExitCheckDone
    /\ DOMAIN hist.pos0 = {"X", "Y"}
    /\ hist.quotes["X"] = R(95)
    /\ hist.quotes["Y"] = R(100)
    /\ DOMAIN positions = {"Y"}

\* execute_trades has returned
ExecDone == pc = "save"

\* the entries of the log of execute_trades for one of its lists
LogOf(phase) == SelectSeq(hist.log, LAMBDA en : en.phase = phase)

Opened(en) == en.event = "True"

\* the list execute_trades was given for a phase
ListOf(phase) ==
    IF phase = "exec_long" THEN long_candidates ELSE short_candidates

\* C14: execute_trades processes the long candidates in list order and
\* then the short candidates in list order; once can_open_position is
\* false no further candidate of the batch, long or short, is opened; a
\* candidate without a current price is skipped without changing the
\* ledger and without stopping the remaining candidates.
C14_ExecuteTrades ==
    pc \in {"exec_long", "exec_short", "save"} =>
      LET log == hist.log
          opened == SelectSeq(log, Opened)
      IN  \* long entries come before short entries
          /\ \A j \in 1..Len(log), k \in 1..Len(log) :
                (j < k /\ log[j].phase = "exec_short")
                   => log[k].phase = "exec_short"
          \* each list is gone through from its first candidate on
          /\ \A ph \in {"exec_long", "exec_short"} :
                /\ Len(LogOf(ph)) <= Len(ListOf(ph))
                /\ \A j \in 1..Len(LogOf(ph)) :
                      LogOf(ph)[j].ticker = ListOf(ph)[j]
          \* nothing is opened after the capacity check has failed
          /\ \A j \in 1..Len(log), k \in 1..Len(log) :
                (j < k /\ log[j].event = "break") => log[k].event = "break"
          \* the ledger changes by the opened candidates only
          /\ Len(CycleTrades) = Len(opened)
          /\ \A j \in 1..Len(opened) :
                /\ CycleTrades[j].ticker = opened[j].ticker
                /\ CycleTrades[j].price = opened[j].price
                /\ CycleTrades[j].action
                     = IF opened[j].phase = "exec_long" THEN "BUY" ELSE "SHORT"
          /\ cash = RSub(hist.store0.cash, R(Len(opened) * POSITION_SIZE))
          /\ DOMAIN positions
               = DOMAIN hist.pos0 \cup {opened[j].ticker : j \in 1..Len(opened)}
          \* without a failed capacity check every candidate gets its turn
          /\ (ExecDone /\ \A j \in 1..Len(log) : log[j].event # "break")
                => \A ph \in {"exec_long", "exec_short"} :
                      Len(LogOf(ph)) = Len(ListOf(ph))

\* X has no price and is skipped, Y is opened after it, and the capacity
\* check stops the short list
C14_Witness ==
    /\ ExecDone
    /\ long_candidates = <<"X", "Y">>
    /\ short_candidates = <<"Z">>
    /\ Len(hist.log) = 3
    /\ hist.log[1].event = "no price"
    /\ hist.log[2].event = "True"
    /\ hist.log[3].event = "break"
    /\ "Y" \in DOMAIN positions
    /\ "Z" \notin DOMAIN positions

\* the candidates of a list that found can_open_position false at their
\* turn, or were never reached because an earlier one did
LeftForCapacity(phase) ==
    {j \in 1..Len(ListOf(phase)) :
        \/ j > Len(LogOf(phase))
        \/ LogOf(phase)[j].event = "break"}

OpenedOf(phase) ==
    {j \in 1..Len(LogOf(phase)) : Opened(LogOf(phase)[j])}

\* C15: when capacity is scarce, entries are prioritized by order: in one
\* execute_trades call no short candidate is opened while a long candidate
\* was left unopened for lack of capacity, and within a list no later
\* candidate is opened while an earlier one was left unopened for lack of
\* capacity.
C15_PriorityByOrder ==
    ExecDone =>
        /\ LeftForCapacity("exec_long") # {} => OpenedOf("exec_short") = {}
        /\ \A ph \in {"exec_long", "exec_short"} :
              \A j \in LeftForCapacity(ph), k \in OpenedOf(ph) : k < j

\* X takes the last free slot, so Y of the same list and Z of the short
\* list are left unopened
C15_Witness ==
    /\ ExecDone
    /\ long_candidates = <<"X", "Y">>
    /\ short_candidates = <<"Z">>
    /\ OpenedOf("exec_long") = {1}
    /\ LeftForCapacity("exec_long") = {2}
    /\ LeftForCapacity("exec_short") = {1}
    /\ DOMAIN positions = DOMAIN hist.pos0 \cup {"X"}

\* C16: within one trading cycle every close performed by the exit check
\* happens before any open performed by the entry step:
\* check_exit_conditions completes before scan_for_opportunities and
\* execute_trades start.
C16_ExitsBeforeEntries ==
    /\ InCycle =>
          \A j \in 1..Len(CycleTrades), k \in 1..Len(CycleTrades) :
             (IsOpening(CycleTrades[j]) /\ IsClosing(CycleTrades[k])) => k < j
    /\ pc \in {"exit_fetch", "exit_close"} =>
          /\ \A j \in 1..Len(CycleTrades) : IsClosing(CycleTrades[j])
          /\ long_candidates = <<>>
          /\ short_candidates = <<>>
    /\ pc \in {"scan", "exec_long", "exec_short"} =>
          \A j \in 1..Len(positions_to_close) :
             \E k \in 1..Len(CycleTrades) :
                /\ IsClosing(CycleTrades[k])
                /\ CycleTrades[k].ticker = positions_to_close[j].ticker

\* a cycle that has closed a position and then opened one
C16_Witness ==
    /\ pc = "save"
    /\ InCycle
    /\ Len(CycleTrades) = 2
    /\ IsClosing(CycleTrades[1])
    /\ IsOpening(CycleTrades[2])

\* C17: a ticker cannot be both exited and re-entered within one trading
\* cycle: no ticker whose position is closed by check_exit_conditions in a
\* cycle is opened again by execute_trades in that same cycle.
C17_NoReentryInCycle ==
    InCycle =>
       \A j \in 1..Len(CycleTrades), k \in 1..Len(CycleTrades) :
          (IsClosing(CycleTrades[j]) /\ IsOpening(CycleTrades[k]))
             => CycleTrades[j].ticker # CycleTrades[k].ticker

\* the ledger as save_portfolio writes it
Snapshot == Written

\* C18: persistence happens only after all closes and opens of the cycle
\* have been applied in memory: a cycle that raises an unexpected error
\* before reaching save_portfolio writes nothing, so the persisted store
\* still holds exactly the state written by the previous successful cycle.
C18_SaveOnlyAfterTrades ==
    /\ pc \in {"exit_fetch", "exit_close", "scan", "exec_long", "exec_short",
               "save"} => store = hist.store0
    /\ pc = "log" => store = Snapshot
    /\ (hist.failed /\ hist.raisedAt \in TryBlock \ {"log"}) =>
          store = hist.store0

\* a cycle that opened a position and then raised, after an earlier cycle
\* that saved
C18_Witness ==
    /\ pc = "returned"
    /\ hist.failed
    /\ hist.raisedAt = "exec_short"
    /\ Len(trades) > hist.t0
    /\ store.exists
    /\ store = hist.store0
    /\ Len(store.trades) # Len(trades)

\* C19: after a cycle that fails with an unexpected error, the next
\* scheduled cycle starts from the last successfully persisted ledger
\* state, under continuous_mode and under trading_loop: the in-memory
\* mutations of the failed cycle are not carried into it.
C19_RetryFromPersisted ==
    (hist.prevFailed /\ pc = "exit_fetch") => Snapshot = [store EXCEPT !.exists = TRUE]

\* the same under continuous_mode alone
C19_RetryFromPersistedContinuous ==
    scheduler = "continuous_mode" => C19_RetryFromPersisted

\* C20: an unexpected exception raised anywhere inside a trading cycle is
\* caught at the cycle boundary and never propagates to the scheduler: the
\* scheduling loop always goes on to run the next cycle, so a failure
\* degrades one cycle and never terminates the long-running process.
C20_CycleFailureIsContained ==
    \* an exception seen by the scheduler comes from the summary
    /\ pc = "scheduler_except" => hist.summaryFailed
    /\ hist.failed => pc \in {"returned", "scheduler_except", "idle"}
    \* the loop goes on: to the sleep, and from there to the next cycle
    /\ pc = "returned" => ENABLED Summary
    /\ pc = "scheduler_except" => ENABLED SchedulerExcept
    /\ (pc = "idle" /\ hist.cycles < MaxCycles) => ENABLED StartCycle

\* a cycle has started after a cycle that raised
C20_Witness ==
    /\ hist.prevFailed
    /\ pc = "exit_fetch"
    /\ hist.cycles = 2

\* scan_for_opportunities has returned in this cycle
ScanDone == pc \in {"exec_long", "exec_short", "save"}

\* the tickers of a list
Listed(list) == {list[k] : k \in 1..Len(list)}

\* the position an entry of the log of execute_trades opened
PositionOpenedBy(en) ==
    PositionAt(en.ticker, IF en.phase = "exec_long" THEN "long" ELSE "short",
               en.price)

\* C21: a ticker that holds an open position is never evaluated for entry.
\* Neither list scan_for_opportunities returns names a ticker that was in
\* the positions mapping when it ran, and execute_trades leaves every
\* position that is already open as it is: the positions held at scan time
\* stay, a position execute_trades opened is on a ticker that was not held
\* and stays as it was opened, and no ticker is opened twice.
C21_HeldTickerNotEvaluated ==
    ScanDone =>
        /\ Listed(long_candidates) \cap DOMAIN hist.held = {}
        /\ Listed(short_candidates) \cap DOMAIN hist.held = {}
        /\ \A t \in DOMAIN hist.held :
              t \in DOMAIN positions /\ positions[t] = hist.held[t]
        /\ \A k \in 1..Len(hist.log) :
              Opened(hist.log[k]) =>
                 /\ hist.log[k].ticker \notin DOMAIN hist.held
                 /\ hist.log[k].ticker \in DOMAIN positions
                 /\ positions[hist.log[k].ticker] =
                        PositionOpenedBy(hist.log[k])
                 /\ \A m \in 1..Len(hist.log) :
                       ( /\ Opened(hist.log[m])
                         /\ hist.log[m].ticker = hist.log[k].ticker )
                       => m = k

\* a held ticker had a series that dropped 5% and stayed out of the lists,
\* and a ticker listed twice was opened once and refused the second time
C21_Witness ==
    /\ pc = "save"
    /\ "X" \in DOMAIN hist.held
    /\ "X" \in DOMAIN hist.stock_data
    /\ hist.stock_data["X"] = Closes(R(100), R(95), LOOKBACK_DAYS + 1)
    /\ \E k \in 1..Len(hist.log), m \in 1..Len(hist.log) :
          /\ k < m
          /\ hist.log[k].ticker = hist.log[m].ticker
          /\ hist.log[k].event = "True"
          /\ hist.log[m].event = "False"

\* the tickers scan_for_opportunities evaluated: those of the list that were
\* not held and whose series was long enough for a price change
Evaluated ==
    {t \in Listed(RoundUniverse) :
        /\ t \notin DOMAIN hist.held
        /\ t \in DOMAIN hist.stock_data
        /\ Len(hist.stock_data[t]) >= LOOKBACK_DAYS + 1}

\* the latest close of a series and the close LOOKBACK_DAYS before it
LatestClose(series) == series[Len(series)]

PastClose(series) == series[Len(series) - LOOKBACK_DAYS]

\* the price rose by 10% or more: 10 * (current - past) >= past
Jumped(series) ==
    RGe(RMul(R(10), RSub(LatestClose(series), PastClose(series))),
        PastClose(series))

\* the price fell by 5% or more: 20 * (past - current) >= past
Dropped(series) ==
    RGe(RMul(R(20), RSub(PastClose(series), LatestClose(series))),
        PastClose(series))

\* C22: entry classification.  A ticker that scan_for_opportunities
\* evaluates is a short candidate exactly when its price change is at least
\* +10%, a long candidate exactly when its price change is at most -5% and
\* it is not a short candidate, and in neither list otherwise; a ticker it
\* does not evaluate is in neither list, and no ticker is in both lists.
C22_EntryClassification ==
    ScanDone =>
        /\ \A t \in Evaluated :
              /\ t \in Listed(short_candidates)
                    <=> Jumped(hist.stock_data[t])
              /\ t \in Listed(long_candidates)
                    <=> ( /\ Dropped(hist.stock_data[t])
                          /\ ~Jumped(hist.stock_data[t]) )
        /\ Listed(short_candidates) \subseteq Evaluated
        /\ Listed(long_candidates) \subseteq Evaluated
        /\ Listed(short_candidates) \cap Listed(long_candidates) = {}

\* the scan has just returned: Z rose by exactly 10% and is a short
\* candidate, X fell by exactly 5% and is a long candidate, Y fell by 4%
\* and is in neither list
C22_Witness ==
    /\ pc = ExecOrder[1]
    /\ idx = 1
    /\ hist.log = <<>>
    /\ Evaluated = {"X", "Y", "Z"}
    /\ hist.stock_data["Z"] = Closes(R(100), R(110), LOOKBACK_DAYS + 1)
    /\ hist.stock_data["X"] = Closes(R(100), R(95), LOOKBACK_DAYS + 1)
    /\ hist.stock_data["Y"] = Closes(R(100), R(96), LOOKBACK_DAYS + 2)
    /\ short_candidates = <<"Z", "Z">>
    /\ long_candidates = <<"X">>

\* C23: calculate_price_change(series, n) returns None when the series has
\* fewer than n + 1 observations; otherwise it returns
\* (current - past) / past, where current is the latest close and past is
\* the close exactly n steps before the latest.
C23_PriceChange ==
    last.op = "calculate_price_change" =>
        LET n == last.days
            size == Len(last.data)
        IN  IF size < n + 1
            THEN last.ret = "None" /\ last.value = NoPrice
            ELSE /\ last.ret = "float"
                 /\ last.value # NoPrice
                 /\ RMul(last.value, last.data[size - n]) =
                        RSub(last.data[size], last.data[size - n])

\* a look-back of two days over four closes: the close two steps before
\* the latest is 100, the oldest and the one in between are not
C23_Witness ==
    /\ last.op = "calculate_price_change"
    /\ last.days = 2
    /\ last.data = <<R(95), R(100), R(95), R(110)>>
    /\ last.value = Norm(10, 100)

\* C24: the trade history is append-only.  Every open and close leaves the
\* records already in the history unchanged and in their order; a
\* successful operation appends exactly one record, at the end and for its
\* own ticker, and an operation that fails appends none.
C24_AppendOnly ==
    [][ /\ Len(trades') >= Len(trades)
        /\ SubSeq(trades', 1, Len(trades)) = trades
        /\ last'.ret = "True" =>
              /\ Len(trades') = Len(trades) + 1
              /\ trades'[Len(trades')].ticker = last'.ticker
        /\ last'.ret # "True" => trades' = trades ]_vars

\* a close was refused after two records were appended to the history the
\* ledger started with
C24_Witness ==
    /\ Len(trades) = NumHeld + 4
    /\ last.op = "close_position"
    /\ last.ret = "False"

EntriesOf(t) == SelectSeq(hist.log, LAMBDA en : en.ticker = t)

\* C26: unavailable market data is non-fatal and per-ticker.  A position
\* whose current price is unavailable in the exit check stays as it is
\* while the other positions are closed exactly when their price meets an
\* exit condition; a ticker whose series is missing or too short is in
\* neither candidate list while every other evaluated ticker whose price
\* change qualifies is in one; and a candidate whose current price is
\* unavailable is passed over while every candidate gets its turn, those
\* with a price being opened unless their ticker is held by then.  (Capacity
\* allows every open here: no candidate finds can_open_position false.)
C26_MissingDataPerTicker ==
    ExecDone =>
        /\ \A t \in DOMAIN hist.pos0 :
              /\ hist.quotes[t] = NoPrice
                    => t \in DOMAIN hist.held /\ hist.held[t] = hist.pos0[t]
              /\ Truthy(hist.quotes[t])
                    => ( t \notin DOMAIN hist.held
                           <=> ExitReason(hist.pos0[t], hist.quotes[t])
                                  # NoReason )
        /\ \A t \in Listed(RoundUniverse) :
              /\ t \notin Evaluated
                    => t \notin Listed(long_candidates)
                               \cup Listed(short_candidates)
              /\ ( /\ t \in Evaluated
                    /\ \/ Jumped(hist.stock_data[t])
                       \/ Dropped(hist.stock_data[t]) )
                    => t \in Listed(long_candidates)
                             \cup Listed(short_candidates)
        /\ \A ph \in {"exec_long", "exec_short"} :
              /\ Len(LogOf(ph)) = Len(ListOf(ph))
              /\ \A j \in 1..Len(LogOf(ph)) :
                    LET en == LogOf(ph)[j]
                    IN  /\ en.ticker = ListOf(ph)[j]
                        /\ en.event # "break"
                        /\ en.price = NoPrice => en.event = "no price"
                        /\ Truthy(en.price) =>
                              /\ en.event \in {"True", "False"}
                              /\ en.ticker \in DOMAIN positions
        /\ \A t \in Listed(long_candidates) \cup Listed(short_candidates) :
              (\A j \in 1..Len(EntriesOf(t)) : EntriesOf(t)[j].price = NoPrice)
                 => t \notin DOMAIN positions

\* X has no price in the exit check and stays while Y is closed; Y has no
\* series and is no candidate while Z is one, twice; Z has no price at its
\* first turn and is opened at its second
C26_Witness ==
    /\ ExecDone
    /\ hist.quotes["X"] = NoPrice
    /\ hist.quotes["Y"] = R(95)
    /\ DOMAIN hist.held = {"X"}
    /\ "Y" \notin DOMAIN hist.stock_data
    /\ short_candidates = <<"Z", "Z">>
    /\ Len(hist.log) = 2
    /\ hist.log[1].price = NoPrice
    /\ hist.log[1].event = "no price"
    /\ hist.log[2].event = "True"
    /\ DOMAIN positions = {"X", "Z"}

\* run_simulation has just built its TradingEngine, and with it a Portfolio
FreshlyLoaded ==
    /\ scheduler = "continuous_mode"
    /\ pc = PhaseAfter("start")
    /\ idx = 1
    /\ hist.quotes = NoHist.quotes

\* C27: loading when no persisted store exists yields the default ledger:
\* cash equal to INITIAL_BUDGET, no positions and an empty trade history.
C27_LoadWithoutStore ==
    (FreshlyLoaded /\ ~store.exists) =>
        /\ cash = R(INITIAL_BUDGET)
        /\ DOMAIN positions = {}
        /\ trades = <<>>

\* the second cycle builds a Portfolio while nothing is persisted, because
\* the first cycle raised before it saved
C27_Witness ==
    /\ FreshlyLoaded
    /\ ~store.exists
    /\ hist.cycles = 2
    /\ hist.prevFailed
    /\ cash = R(INITIAL_BUDGET)
    /\ last.op = "__init__"

SummaryConsistent(obtainable) ==
    LET su == last.summary
        marked == [t \in {u \in DOMAIN positions : obtainable[u]}
                     |-> last.quotes[t]]
    IN  /\ su.current_value = get_portfolio_value(marked)
        /\ RMul(su.total_return, R(INITIAL_BUDGET))
              = RSub(su.current_value, R(INITIAL_BUDGET))
        /\ su.cash = cash
        /\ su.active_positions = Cardinality(DOMAIN positions)
        /\ su.total_trades = Len(trades)
        /\ su.profitable_trades = get_statistics.profitable_trades
        /\ su.losing_trades = get_statistics.losing_trades
        /\ su.win_rate = get_statistics.win_rate
        /\ su.total_profit = get_statistics.total_profit

\* C29: the cycle summary is consistent with the ledger it is computed
\* from: current_value is the mark-to-market value over the prices
\* obtainable for the open positions, total_return is
\* (current_value - INITIAL_BUDGET) / INITIAL_BUDGET, and cash,
\* active_positions, total_trades, profitable_trades, losing_trades,
\* win_rate and total_profit are the ledger's statistics.
C29_SummaryConsistent ==
    last.op = "get_portfolio_summary" =>
        SummaryConsistent([t \in DOMAIN positions |->
                             last.quotes[t] # NoPrice])

\* the same with a price of 0 counted as not obtainable
C29_SummaryConsistentNonZeroPrices ==
    last.op = "get_portfolio_summary" =>
        SummaryConsistent([t \in DOMAIN positions |->
                             Truthy(last.quotes[t])])

\* C30: cash >= 0 is not guaranteed.  A state with negative cash is
\* reachable through open and close operations, by closing a SHORT far
\* above its entry price while cash is low, and the cash after every
\* close, negative or not, is the cash before it plus POSITION_SIZE plus
\* the realized profit_loss: it is not clamped at 0.
C30_CashNotClamped ==
    \A j \in 1..Len(trades) :
        IsClosing(trades[j]) =>
            CashAfter(j) = RAdd(RAdd(cashBefore[j], R(POSITION_SIZE)),
                                trades[j].profit_loss)

\* X was shorted at 50 with cash 20 and covered at 160: the loss of 22
\* leaves cash at 10 + 10 - 22 = -2
C30_Witness ==
    /\ last.op = "close_position"
    /\ last.ret = "True"
    /\ trades[Len(trades)].action = "COVER"
    /\ trades[Len(trades) - 1].action = "SHORT"
    /\ trades[Len(trades) - 1].price = R(50)
    /\ trades[Len(trades)].price = R(160)
    /\ cashBefore[Len(trades)] = R(POSITION_SIZE)
    /\ RLt(cash, Zero)
    /\ cash = R(-2)

\* C31: cycles are strictly sequential and the ledger has one writer.  A
\* cycle begins only when the one before it has returned and the loop has
\* slept, and a request served by the status route changes neither the
\* ledger of the trading loop nor the persisted store: the ledger it shows
\* is the one load_portfolio reads from the store, whatever the trading
\* loop holds in memory at that moment.
C31_SequentialCyclesOneWriter ==
    [][ /\ hist'.cycles # hist.cycles =>
              /\ pc = "idle"
              /\ pc' # "idle"
              /\ hist'.cycles = hist.cycles + 1
        /\ (pc' = "idle" /\ pc # "idle") =>
              pc \in {"returned", "scheduler_except"}
        /\ web' # web =>
              /\ <<cash, positions, trades>>' = <<cash, positions, trades>>
              /\ store' = store
              /\ pc' = pc
              /\ web'.cash = Loaded(store).cash
              /\ web'.positions = Loaded(store).positions
              /\ web'.trades = Loaded(store).trades ]_vars

\* the status route has shown the saved ledger of the first cycle, and the
\* second cycle has since opened a position that is only in memory
C31_Witness ==
    /\ web.served
    /\ store.exists
    /\ hist.cycles = 2
    /\ pc \in {"exec_long", "exec_short"}
    /\ Len(web.trades) > 0
    /\ Len(web.trades) = Len(store.trades)
    /\ Len(trades) > Len(web.trades)

\* the index of the latest of the first n trades that is on ticker t; 0 if
\* there is none
LatestTrade(t, n) ==
    LET on == {j \in 1..n : trades[j].ticker = t}
    IN  IF on = {} THEN 0 ELSE CHOOSE j \in on : \A k \in on : k <= j

\* the ledger of the trading loop as it was when its history held n trades
CashAt(n) == IF n < Len(trades) THEN cashBefore[n + 1] ELSE cash

PositionsAt(n) ==
    LET held == {t \in {trades[j].ticker : j \in 1..n} :
                   IsOpening(trades[LatestTrade(t, n)])}
    IN  [t \in held |->
           PositionAt(t,
                      IF trades[LatestTrade(t, n)].action = "BUY"
                      THEN "long" ELSE "short",
                      trades[LatestTrade(t, n)].price)]

\* C36: a ledger loaded by the status thread while or after the trading
\* thread runs save_portfolio equals a ledger that one save wrote: its
\* cash and positions and its trade history are those the trading loop had
\* at one and the same point of its history.
C36_LoadedFromOneSave ==
    web.served =>
        \E n \in 0..Len(trades) :
            /\ web.trades = SubSeq(trades, 1, n)
            /\ web.cash = CashAt(n)
            /\ web.positions = PositionsAt(n)

\* the same for requests served while no save is between its two files
C36_LoadedOutsideSave ==
    [][(web' # web /\ pc # "save_trades") =>
          \E n \in 0..Len(trades) :
              /\ web'.trades = SubSeq(trades, 1, n)
              /\ web'.cash = CashAt(n)
              /\ web'.positions = PositionsAt(n)]_vars

\* C32: global conservation.  In every state reachable from the default
\* ledger by opens and closes, cash + POSITION_SIZE * (number of open
\* positions) = INITIAL_BUDGET + the sum of profit_loss over the whole
\* trade history, so that the total_profit of get_statistics is cash plus
\* the reserved budgets minus INITIAL_BUDGET.
C32_Conservation ==
    LET reserved == R(POSITION_SIZE * Cardinality(DOMAIN positions))
    IN  /\ RAdd(cash, reserved)
             = RAdd(R(INITIAL_BUDGET), SumProfitLoss(trades))
        /\ get_statistics.total_profit
             = RSub(RAdd(cash, reserved), R(INITIAL_BUDGET))

\* X was closed at a loss while Y is held
C32_Witness ==
    /\ Len(trades) = 3
    /\ DOMAIN positions = {"Y"}
    /\ RLt(SumProfitLoss(trades), Zero)
    /\ last.op = "close_position"
    /\ last.ret = "True"

\* the indices of the trades on ticker t that come before trade j
EarlierOn(t, j) == {k \in 1..(j - 1) : trades[k].ticker = t}

\* the trade on the ticker of trade j that comes directly before it; 0 if
\* trade j is the first on its ticker
PreviousOn(j) ==
    LET on == EarlierOn(trades[j].ticker, j)
    IN  IF on = {} THEN 0 ELSE CHOOSE k \in on : \A m \in on : m <= k

\* C33: the trade history is well-formed.  For each ticker the trades
\* alternate opening and closing records and start with an opening one; a
\* BUY is closed only by a SELL and a SHORT only by a COVER, with the same
\* quantity; and a ticker is in the positions mapping exactly when its
\* latest trade is an opening one, so that the number of open positions is
\* the number of opening trades minus the number of closing trades.
C33_WellFormedHistory ==
    /\ \A j \in 1..Len(trades) :
          IF IsOpening(trades[j])
          THEN PreviousOn(j) # 0 => IsClosing(trades[PreviousOn(j)])
          ELSE /\ IsClosing(trades[j])
               /\ PreviousOn(j) # 0
               /\ IsOpening(trades[PreviousOn(j)])
               /\ trades[j].action
                    = IF trades[PreviousOn(j)].action = "BUY"
                      THEN "SELL" ELSE "COVER"
               /\ trades[j].quantity = trades[PreviousOn(j)].quantity
    /\ \A t \in Tickers :
          t \in DOMAIN positions
             <=> ( /\ LatestTrade(t, Len(trades)) # 0
                   /\ IsOpening(trades[LatestTrade(t, Len(trades))]) )
    /\ DOMAIN positions \subseteq Tickers
    /\ Cardinality(DOMAIN positions)
         = Cardinality({j \in 1..Len(trades) : IsOpening(trades[j])})
           - Cardinality({j \in 1..Len(trades) : IsClosing(trades[j])})

\* X was shorted, covered and bought again
C33_Witness ==
    /\ Len(trades) = 3
    /\ trades[1].ticker = "X" /\ trades[1].action = "SHORT"
    /\ trades[2].ticker = "X" /\ trades[2].action = "COVER"
    /\ trades[3].ticker = "X" /\ trades[3].action = "BUY"
    /\ DOMAIN positions = {"X"}

\* C34: every close performed by check_exit_conditions on a position that
\* was opened at a positive price realizes a profit_loss that is not zero
\* and whose sign matches its reason: positive with "Take profit reached",
\* negative with "Stop loss triggered", for LONG and for SHORT.
C34_ReasonMatchesSign ==
    \A j \in 1..Len(trades) :
        IsClosing(trades[j]) =>
            /\ PreviousOn(j) # 0
            /\ RGt(trades[PreviousOn(j)].price, Zero)
            /\ trades[j].reason \in Reasons
            /\ trades[j].reason = "Take profit reached"
                  => RGt(trades[j].profit_loss, Zero)
            /\ trades[j].reason = "Stop loss triggered"
                  => RLt(trades[j].profit_loss, Zero)

\* a SHORT opened at 95 in the first cycle was covered at 100 by the exit
\* check of the second, on its stop loss
C34_Witness ==
    /\ pc = "scan"
    /\ hist.cycles = 2
    /\ Len(trades) = 2
    /\ trades[1].action = "SHORT"
    /\ trades[1].price = R(95)
    /\ trades[2].action = "COVER"
    /\ trades[2].price = R(100)
    /\ trades[2].reason = "Stop loss triggered"
    /\ RLt(trades[2].profit_loss, Zero)

\* C35: opening trades count toward total_trades with profit_loss 0, so in
\* every state reachable from the default ledger profitable_trades +
\* losing_trades <= the number of closing trades <= total_trades / 2, and
\* the win_rate get_statistics reports never exceeds 1/2.
C35_WinRateAtMostHalf ==
    last.op = "get_statistics" =>
        LET st == last.stats
            closes == Cardinality({j \in 1..Len(trades) :
                                     IsClosing(trades[j])})
        IN  /\ st.profitable_trades + st.losing_trades <= closes
            /\ 2 * closes <= st.total_trades
            /\ RLe(st.win_rate, Norm(1, 2))

\* two round trips, both at a profit: the win rate is exactly 1/2
C35_Witness ==
    /\ last.op = "get_statistics"
    /\ last.stats.total_trades = 4
    /\ last.stats.profitable_trades = 2
    /\ last.stats.win_rate = Norm(1, 2)

PastExitCheck == pc \notin {"exit_fetch", "exit_close"}

\* C38: a current price of exactly 0 is treated like an unavailable price.
\* check_exit_conditions does not close a position for which it fetched 0,
\* so a LONG whose price fell to 0 is not closed by its stop loss;
\* execute_trades does not open a candidate for which it fetched 0; and the
\* summary values a position for which it fetched 0 at POSITION_SIZE.
C38_ZeroPriceIsNoPrice ==
    /\ PastExitCheck =>
          \A t \in DOMAIN hist.pos0 :
             hist.quotes[t] = Zero =>
                /\ t \in DOMAIN positions
                /\ positions[t] = hist.pos0[t]
                /\ \A j \in 1..Len(CycleTrades) : CycleTrades[j].ticker # t
    /\ \A k \in 1..Len(hist.log) :
          hist.log[k].price = Zero =>
             /\ hist.log[k].event = "no price"
             /\ hist.log[k].ticker \notin DOMAIN positions
             /\ \A j \in 1..Len(CycleTrades) :
                   CycleTrades[j].ticker # hist.log[k].ticker
    /\ last.op = "get_portfolio_summary" =>
          LET priced == {t \in DOMAIN positions :
                           last.quotes[t] \notin {NoPrice, Zero}}
              zeroed == {t \in DOMAIN positions : last.quotes[t] = Zero}
              unpriced == {t \in DOMAIN positions : last.quotes[t] = NoPrice}
          IN  last.summary.current_value
                = RAdd(RAdd(cash,
                            SumPositionValues(priced, last.quotes)),
                       R(POSITION_SIZE * Cardinality(zeroed \cup unpriced)))

\* a price of 0 was fetched for the LONG position X in the exit check, for
\* the candidate Z in execute_trades and for X again in the summary: X is
\* held, Z is not, and the summary counts X at POSITION_SIZE
C38_Witness ==
    /\ pc = "summarised"
    /\ hist.pos0["X"].position_type = "long"
    /\ hist.quotes["X"] = Zero
    /\ Len(hist.log) = 1
    /\ hist.log[1].ticker = "Z"
    /\ hist.log[1].price = Zero
    /\ DOMAIN positions = {"X"}
    /\ last.quotes["X"] = Zero
    /\ last.summary.current_value = RAdd(cash, R(POSITION_SIZE))

ReadOnlyOps ==
    {"should_close_position", "get_portfolio_value", "get_statistics",
     "can_open_position", "scan_for_opportunities"}

\* C39: should_close_position, get_portfolio_value, get_statistics,
\* can_open_position and scan_for_opportunities are read-only: a call of
\* any of them leaves cash, the positions mapping and the trade history as
\* they are, and should_close_position returns no exit reason for a ticker
\* without an open position.
C39_ReadOnly ==
    [][ last'.op \in ReadOnlyOps =>
          /\ cash' = cash
          /\ positions' = positions
          /\ trades' = trades
          /\ ( /\ last'.op = "should_close_position"
               /\ last'.ticker \notin DOMAIN positions )
             => last'.ret = NoReason ]_vars

\* the scan has returned Y as a long candidate while X is held
C39_Witness ==
    /\ last.op = "scan_for_opportunities"
    /\ last.long_candidates = <<"Y">>
    /\ DOMAIN positions = {"X"}
    /\ Len(trades) = 1

=============================================================================
